---- MODULE Spec2Model ----
(***************************************************************************)
(* Model of the borderless command line tool: the link registry (LinkDb,   *)
(* src/src/api.rs and src/src/cli/link.rs), the `link` command and the     *)
(* node client (Node, src/src/api.rs).                                     *)
(*                                                                         *)
(* Text is modelled as a sequence of tokens.  A token is one byte of the   *)
(* LINKS file ("LF" is the byte 0x0A, "CR" is 0x0D, "xFF" is a byte that   *)
(* is not valid UTF-8) or a run of bytes that serde_json reads and writes  *)
(* as a unit (a key with its punctuation, an escape sequence, the text of  *)
(* a URL).  A string value in memory is a sequence of characters, "LF"     *)
(* being the newline character.                                            *)
(***************************************************************************)
EXTENDS Integers, Sequences, FiniteSets, TLC

\* Largest number of records held in memory or in an initial LINKS file.
MaxLinks == 2

\* Largest number of elements in the array a node answers network_peers with.
MaxPeers == 2

-----------------------------------------------------------------------------
(* Option<String> *)

None == [tag |-> "None", val |-> <<>>]

Some(s) == [tag |-> "Some", val |-> s]

-----------------------------------------------------------------------------
(* url::Url.  A Url value is represented by its serialization (as_str).    *)

\* Url::parse: the text of a URL to the Url value, "Err" when it is no
\* absolute URL.  Parsing normalises: an empty path becomes "/".
UrlParse(text) ==
    CASE text = "http://h/" -> "http://h/"
      [] text = "http://h" -> "http://h/"
      [] text = "http://g/" -> "http://g/"
      [] text = "localhost:3000" -> "localhost:3000"
      [] OTHER -> "Err"

\* Url::as_str, used by Serialize for Url.
UrlAsStr(url) == url

\* Url::join of an absolute path: fails on a cannot-be-a-base URL.
UrlJoin(url, path) ==
    IF url = "localhost:3000" THEN "Err" ELSE <<url, path>>

-----------------------------------------------------------------------------
(* Link and its JSON form *)

Link(name, api, api_key) == [name |-> name, api |-> api, api_key |-> api_key]

\* The links the model draws its inputs from.
LinkUniverse ==
    { Link(<<"a">>, "http://h/", None),
      Link(<<"a">>, "http://g/", Some(<<"k">>)),
      Link(<<"b", "LF">>, "localhost:3000", Some(<<>>)) }

NameUniverse == { l.name : l \in LinkUniverse } \cup { <<"c">> }

\* serde_json's escaping of one character of a string.
Escape(c) ==
    CASE c = "LF" -> "\\n"
      [] c = "\"" -> "\\\""
      [] OTHER -> c

\* The inverse, for one token between two quotes; "Err" for a token that
\* may not stand in a JSON string (a control character, a lone backslash).
Unescape(t) ==
    CASE t = "\\n" -> "LF"
      [] t = "\\\"" -> "\""
      [] t \in {"LF", "CR", "\\", "\"", "xFF"} -> "Err"
      [] OTHER -> t

EncStr(s) == <<"\"">> \o [i \in 1..Len(s) |-> Escape(s[i])] \o <<"\"">>

EncOpt(o) == IF o.tag = "None" THEN <<"null">> ELSE EncStr(o.val)

\* serde_json::to_string(&link): the fields in declaration order.
to_string(link) ==
    <<"{\"name\":">> \o EncStr(link.name)
        \o <<",\"api\":">> \o EncStr(<<UrlAsStr(link.api)>>)
        \o <<",\"api_key\":">> \o EncOpt(link.api_key) \o <<"}">>

ParseErr == [ok |-> FALSE]

\* The first index >= i of token x in t, 0 when there is none.
RECURSIVE IndexFrom(_, _, _)
IndexFrom(t, i, x) ==
    IF i > Len(t) THEN 0
    ELSE IF t[i] = x THEN i
    ELSE IndexFrom(t, i + 1, x)

\* A JSON string starting at t[i]: its value and the index after it.
ParseStr(t, i) ==
    IF i > Len(t) \/ t[i] # "\"" THEN ParseErr
    ELSE LET j == IndexFrom(t, i + 1, "\"")
         IN  IF j = 0 THEN ParseErr
             ELSE LET val == [m \in 1..(j-i-1) |-> Unescape(t[i+m])]
                  IN  IF \E m \in 1..Len(val) : val[m] = "Err" THEN ParseErr
                      ELSE [ok |-> TRUE, val |-> val, next |-> j + 1]

IsWs(t) == t \in {" ", "CR"}

RECURSIVE TrimWs(_)
TrimWs(t) ==
    IF t = <<>> THEN t
    ELSE IF IsWs(t[1]) THEN TrimWs(Tail(t))
    ELSE IF IsWs(t[Len(t)]) THEN TrimWs(SubSeq(t, 1, Len(t) - 1))
    ELSE t

\* The api_key member and the closing brace, starting at t[i].
ParseKeyAndEnd(t, i) ==
    IF i = Len(t) /\ t[i] = "}" THEN [ok |-> TRUE, val |-> None]
    ELSE IF i >= Len(t) \/ t[i] # ",\"api_key\":" THEN ParseErr
    ELSE IF t[i+1] = "null"
         THEN IF i + 2 = Len(t) /\ t[i+2] = "}"
              THEN [ok |-> TRUE, val |-> None] ELSE ParseErr
    ELSE LET k == ParseStr(t, i + 1)
         IN  IF ~k.ok THEN ParseErr
             ELSE IF k.next = Len(t) /\ t[k.next] = "}"
                  THEN [ok |-> TRUE, val |-> Some(k.val)] ELSE ParseErr

\* serde_json::from_str::<Link>(line), for members in declaration order:
\* the empty text is an error, name and api are required, api is parsed by
\* Url::parse, a missing api_key is None.
from_str(line) ==
    LET t == TrimWs(line)
    IN  IF t = <<>> \/ t[1] # "{\"name\":" THEN ParseErr
        ELSE LET n == ParseStr(t, 2)
             IN  IF ~n.ok THEN ParseErr
                 ELSE IF n.next > Len(t) \/ t[n.next] # ",\"api\":" THEN ParseErr
                 ELSE LET a == ParseStr(t, n.next + 1)
                      IN  IF ~a.ok \/ Len(a.val) # 1 THEN ParseErr
                          ELSE IF UrlParse(a.val[1]) = "Err" THEN ParseErr
                          ELSE LET k == ParseKeyAndEnd(t, a.next)
                               IN  IF ~k.ok THEN ParseErr
                                   ELSE [ok |-> TRUE,
                                         link |-> Link(n.val, UrlParse(a.val[1]), k.val)]

-----------------------------------------------------------------------------
(* The LINKS file *)

NoFile == [kind |-> "absent", content |-> <<>>]

Directory == [kind |-> "dir", content |-> <<>>]

File(content) == [kind |-> "file", content |-> content]

StripCr(line) ==
    IF line # <<>> /\ line[Len(line)] = "CR"
    THEN SubSeq(line, 1, Len(line) - 1) ELSE line

\* BufRead::lines over the bytes of the file: a line ends at LF, the LF and
\* a CR before it are dropped; bytes after the last LF are a line of their own.
RECURSIVE lines(_)
lines(c) ==
    IF c = <<>> THEN <<>>
    ELSE LET nl == IndexFrom(c, 1, "LF")
         IN  IF nl = 0 THEN <<c>>
             ELSE <<StripCr(SubSeq(c, 1, nl - 1))>> \o lines(SubSeq(c, nl + 1, Len(c)))

\* What becomes of one line read from the file: reading it is an I/O error
\* when its bytes are not UTF-8, and it is corrupted when it is no Link.
LineStatus(line) ==
    IF \E i \in 1..Len(line) : line[i] = "xFF" THEN "Io"
    ELSE IF ~from_str(line).ok THEN "Corrupted"
    ELSE "Ok"

RECURSIVE Concat(_)
Concat(ss) == IF ss = <<>> THEN <<>> ELSE Head(ss) \o Concat(Tail(ss))

-----------------------------------------------------------------------------
(* LinkDb *)

Ok(val) == [status |-> "Ok", err |-> "", val |-> val]

Err(kind) == [status |-> "Err", err |-> kind, val |-> <<>>]

\* The loop of open(): `line?` fails on bytes that are not UTF-8,
\* from_str(..).context(..)? on a line that is no Link; the links parsed so
\* far are pushed to the Vec.
RECURSIVE parse_lines(_, _)
parse_lines(ls, acc) ==
    IF ls = <<>> THEN Ok(acc)
    ELSE IF \E i \in 1..Len(Head(ls)) : Head(ls)[i] = "xFF" THEN Err("Io")
    ELSE LET link == from_str(Head(ls))
         IN  IF ~link.ok THEN Err("Corrupted")
             ELSE parse_lines(Tail(ls), Append(acc, link.link))

\* The same loop when empty lines are skipped instead of parsed.
RECURSIVE parse_lines_skip_empty(_, _)
parse_lines_skip_empty(ls, acc) ==
    IF ls = <<>> THEN Ok(acc)
    ELSE IF Head(ls) = <<>> THEN parse_lines_skip_empty(Tail(ls), acc)
    ELSE IF \E i \in 1..Len(Head(ls)) : Head(ls)[i] = "xFF" THEN Err("Io")
    ELSE LET link == from_str(Head(ls))
         IN  IF ~link.ok THEN Err("Corrupted")
             ELSE parse_lines_skip_empty(Tail(ls), Append(acc, link.link))

\* open() that truncates the file it opens.
open_truncating(f) ==
    IF f.kind = "dir" THEN [ret |-> Err("NotAFile"), fs |-> f]
    ELSE [ret |-> Ok(<<>>), fs |-> File(<<>>)]

\* open() that parses only non-empty lines.
open_skip_empty(f) ==
    IF f.kind = "absent" THEN [ret |-> Ok(<<>>), fs |-> File(<<>>)]
    ELSE IF f.kind # "file" THEN [ret |-> Err("NotAFile"), fs |-> f]
    ELSE [ret |-> parse_lines_skip_empty(lines(f.content), <<>>), fs |-> f]

\* LinkDb::open: the result (the links on success) and the file afterwards.
open(f) ==
    IF f.kind = "absent" THEN [ret |-> parse_lines(lines(<<>>), <<>>), fs |-> File(<<>>)]
    ELSE IF f.kind # "file" THEN [ret |-> Err("NotAFile"), fs |-> f]
    ELSE [ret |-> parse_lines(lines(f.content), <<>>), fs |-> f]

get_links(links) == links

contains(links, name) == \E i \in 1..Len(links) : links[i].name = name

RemoveAt(s, i) == SubSeq(s, 1, i - 1) \o SubSeq(s, i + 1, Len(s))

\* remove_link that falls back to index 0 when the name is absent.
remove_link_or_first(links, name) ==
    IF links = <<>> THEN links
    ELSE IF contains(links, name)
    THEN RemoveAt(links, CHOOSE i \in 1..Len(links) :
                            /\ links[i].name = name
                            /\ \A j \in 1..(i-1) : links[j].name # name)
    ELSE Tail(links)

\* remove_link that takes the last record of the name.
remove_link_last(links, name) ==
    IF \E i \in 1..Len(links) : links[i].name = name
    THEN RemoveAt(links, CHOOSE i \in 1..Len(links) :
                            /\ links[i].name = name
                            /\ \A j \in (i+1)..Len(links) : links[j].name # name)
    ELSE links

\* LinkDb::remove_link: the links afterwards (the call returns Ok on both
\* paths; on the None path it logs a warning).
remove_link(links, name) ==
    IF \E i \in 1..Len(links) : links[i].name = name
    THEN LET idx == CHOOSE i \in 1..Len(links) :
                        /\ links[i].name = name
                        /\ \A j \in 1..(i-1) : links[j].name # name
         IN  RemoveAt(links, idx)
    ELSE links

add_link(links, new_link) == Append(links, new_link)

\* modify_link that does not remove the old record.
modify_link_keep_old(links, name, new_link) == add_link(links, new_link)

\* LinkDb::modify_link
modify_link(links, name, new_link) == add_link(remove_link(links, name), new_link)

\* What commit() writes: each link's JSON followed by a newline.
encode_links(links) ==
    Concat([i \in 1..Len(links) |-> to_string(links[i]) \o <<"LF">>])

\* commit() over a file opened for writing without truncation.
commit_no_truncate(f, links) ==
    IF f.kind = "dir" THEN [ret |-> Err("Io"), fs |-> f]
    ELSE LET new == encode_links(links)
         IN  [ret |-> Ok(<<>>),
              fs |-> File(new \o SubSeq(f.content, Len(new) + 1, Len(f.content)))]

\* LinkDb::commit: File::create truncates or creates the file (and fails
\* on a directory), then the links are written.
commit(f, links) ==
    IF f.kind = "dir" THEN [ret |-> Err("Io"), fs |-> f]
    ELSE [ret |-> Ok(<<>>), fs |-> File(encode_links(links))]

-----------------------------------------------------------------------------
(* State *)

VARIABLES
    fs,      \* the path <data dir>/LINKS
    db,      \* the LinkDb value the running command holds, if any
    op,      \* the operation that made the last step
    arg,     \* its arguments
    ret,     \* what it returned
    was,     \* history: the kind of fs before the last step
    disk,    \* history: the links that the first successful open() or the
             \* last commit() found or left in the file
    lost,    \* history: a LinkDb with uncommitted changes was dropped
    mod,     \* history: progress of modify_link; commit; open
    ui,      \* the selection prompt the last step showed, if any
    node,    \* the Node made by Node::select or Node::new
    paths,   \* the other paths the commands read and write, by name
    run      \* the last run of deploy, merge, init or pack: what it was
             \* given and what it did

vars == <<fs, db, op, arg, ret, was, disk, lost, mod, ui, node, paths, run>>

NoDb == [open |-> FALSE, links |-> <<>>]

OpenDb(links) == [open |-> TRUE, links |-> links]

NoNode == [set |-> FALSE]

NodeOf(link) == [set |-> TRUE, link |-> link]

NoArg == [name |-> <<>>, link |-> <<>>, resp |-> <<>>, written |-> <<>>]

NoPrompt == [prompted |-> FALSE, items |-> <<>>]

Prompt(items) == [prompted |-> TRUE, items |-> items]

NoPaths == <<>>

NoRun == [cmd |-> "none"]

NoMod == [stage |-> "none", name |-> <<>>, link |-> <<>>, matches |-> 0, count |-> 0]

\* Lines an initial LINKS file may hold besides the JSON of the links of
\* LinkUniverse: an empty line, text that is no JSON, a byte that is not
\* UTF-8, a link without api_key, a URL that is not normalised, a URL that
\* does not parse, a line that ends in CR LF.
OddLines ==
    { <<>>,
      <<"x">>,
      <<"xFF">>,
      <<"{\"name\":", "\"", "b", "\"", ",\"api\":", "\"", "http://h", "\"", "}">>,
      <<"{\"name\":", "\"", "b", "\"", ",\"api\":", "\"", "h", "\"", ",\"api_key\":", "null", "}">>,
      to_string(Link(<<"b">>, "http://g/", None)) \o <<"CR">> }

SeqsUpTo(S, n) == UNION { [1..k -> S] : k \in 0..n }

InsertAt(s, i, x) == SubSeq(s, 1, i - 1) \o <<x>> \o SubSeq(s, i, Len(s))

\* The lines of an initial file: the JSON of up to MaxLinks links, or of
\* fewer links with one odd line at any place among them.
InitLines ==
    LET json == { to_string(l) : l \in LinkUniverse }
    IN  SeqsUpTo(json, MaxLinks)
            \cup { InsertAt(ls, i, odd) : <<ls, i, odd>> \in
                     { t \in SeqsUpTo(json, MaxLinks - 1) \X (1..MaxLinks) \X OddLines :
                         t[2] <= Len(t[1]) + 1 } }

\* Initial files: every line ended by LF, and the files of one line also
\* with the LF missing.
InitFiles ==
    { Concat([i \in 1..Len(ls) |-> ls[i] \o <<"LF">>]) : ls \in InitLines }
        \cup { ls[1] : ls \in { t \in InitLines : Len(t) = 1 } }

InitFs == { NoFile, Directory } \cup { File(c) : c \in InitFiles }

InitLinkDb ==
    /\ db = NoDb
    /\ op = "init"
    /\ arg = NoArg
    /\ ret = Ok(<<>>)
    /\ was = fs.kind
    /\ disk = [by |-> "none", links |-> <<>>, shrunk |-> FALSE]
    /\ lost = FALSE
    /\ mod = NoMod
    /\ ui = NoPrompt
    /\ node = NoNode

InitRest ==
    /\ InitLinkDb
    /\ paths = NoPaths
    /\ run = NoRun

Init ==
    /\ fs \in InitFs
    /\ InitRest

-----------------------------------------------------------------------------
(* The operations of LinkDb, one call per step *)

Open ==
    /\ ~db.open
    /\ LET r == open(fs)
       IN  /\ fs' = r.fs
           /\ ret' = r.ret
           /\ db' = IF r.ret.status = "Ok" THEN OpenDb(r.ret.val) ELSE NoDb
           /\ disk' = IF r.ret.status = "Ok" /\ disk.by = "none"
                      THEN [by |-> "open", links |-> r.ret.val, shrunk |-> FALSE]
                      ELSE disk
    /\ op' = "open"
    /\ arg' = NoArg
    /\ was' = fs.kind
    /\ mod' = IF mod.stage = "committed" THEN [mod EXCEPT !.stage = "reopened"] ELSE NoMod
    /\ UNCHANGED <<lost, ui, node, paths, run>>

GetLinks ==
    /\ db.open
    /\ ret' = Ok(get_links(db.links))
    /\ op' = "get_links"
    /\ arg' = NoArg
    /\ was' = fs.kind
    /\ mod' = NoMod
    /\ UNCHANGED <<fs, db, disk, lost, ui, node, paths, run>>

Contains(name) ==
    /\ db.open
    /\ ret' = Ok(<<contains(db.links, name)>>)
    /\ op' = "contains"
    /\ arg' = [NoArg EXCEPT !.name = name]
    /\ was' = fs.kind
    /\ mod' = NoMod
    /\ UNCHANGED <<fs, db, disk, lost, ui, node, paths, run>>

\* add_link followed by a commit of its own.
AddLinkAndSave(new_link) ==
    /\ db.open
    /\ Len(db.links) < MaxLinks
    /\ db' = OpenDb(add_link(db.links, new_link))
    /\ fs' = commit(fs, db'.links).fs
    /\ ret' = Ok(<<>>)
    /\ op' = "add_link"
    /\ arg' = [NoArg EXCEPT !.link = new_link]
    /\ was' = fs.kind
    /\ mod' = NoMod
    /\ UNCHANGED <<disk, lost, ui, node, paths, run>>

AddLink(new_link) ==
    /\ db.open
    /\ Len(db.links) < MaxLinks
    /\ db' = OpenDb(add_link(db.links, new_link))
    /\ ret' = Ok(<<>>)
    /\ op' = "add_link"
    /\ arg' = [NoArg EXCEPT !.link = new_link]
    /\ was' = fs.kind
    /\ mod' = NoMod
    /\ UNCHANGED <<fs, disk, lost, ui, node, paths, run>>

RemoveLink(name) ==
    /\ db.open
    /\ db' = OpenDb(remove_link(db.links, name))
    /\ ret' = Ok(IF contains(db.links, name) THEN <<>> ELSE <<"warning">>)
    /\ op' = "remove_link"
    /\ arg' = [NoArg EXCEPT !.name = name]
    /\ was' = fs.kind
    /\ mod' = NoMod
    /\ UNCHANGED <<fs, disk, lost, ui, node, paths, run>>

ModifyLink(name, new_link) ==
    /\ db.open
    /\ Len(remove_link(db.links, name)) < MaxLinks
    /\ db' = OpenDb(modify_link(db.links, name, new_link))
    /\ ret' = Ok(<<>>)
    /\ op' = "modify_link"
    /\ arg' = [NoArg EXCEPT !.name = name, !.link = new_link]
    /\ was' = fs.kind
    /\ mod' = [stage |-> "modified", name |-> name, link |-> new_link,
               matches |-> Len(SelectSeq(db.links, LAMBDA l : l.name = name)),
               count |-> Len(db.links)]
    /\ UNCHANGED <<fs, disk, lost, ui, node, paths, run>>

\* commit(self) consumes the LinkDb.
Commit ==
    /\ db.open
    /\ LET r == commit(fs, db.links)
       IN  /\ fs' = r.fs
           /\ ret' = r.ret
           /\ disk' = IF r.ret.status = "Ok"
                      THEN [by |-> "commit", links |-> db.links,
                            shrunk |-> Len(r.fs.content) < Len(fs.content)]
                      ELSE disk
    /\ db' = NoDb
    /\ op' = "commit"
    /\ arg' = NoArg
    /\ was' = fs.kind
    /\ lost' = FALSE
    /\ mod' = IF mod.stage = "modified" THEN [mod EXCEPT !.stage = "committed"] ELSE NoMod
    /\ UNCHANGED <<ui, node, paths, run>>

\* The LinkDb goes out of scope without commit().
Drop ==
    /\ db.open
    /\ db' = NoDb
    /\ ret' = Ok(<<>>)
    /\ op' = "drop"
    /\ arg' = NoArg
    /\ was' = fs.kind
    /\ lost' = (lost \/ db.links # disk.links)
    /\ mod' = NoMod
    /\ UNCHANGED <<fs, disk, ui, node, paths, run>>

Next ==
    \/ Open
    \/ GetLinks
    \/ \E name \in NameUniverse : Contains(name)
    \/ \E l \in LinkUniverse : AddLink(l)
    \/ \E name \in NameUniverse : RemoveLink(name)
    \/ \E name \in NameUniverse, l \in LinkUniverse : ModifyLink(name, l)
    \/ Commit
    \/ Drop

Spec == Init /\ [][Next]_vars

-----------------------------------------------------------------------------
(* The `link` command: one run of handle_link per step *)

\* What the user may type at the prompts.
NameInputs == NameUniverse \cup { <<>> }

UrlInputs == { "http://h", "localhost:3000", "h" }

KeyInputs == { <<>>, <<"k">>, <<"k", " ">> }

Existing(link) == [kind |-> "Existing", link |-> link]

Create == [kind |-> "Create", link |-> Link(<<>>, "", None)]

\* The items of the first prompt: the links of the db, then "Create new".
link_items(links) == [i \in 1..Len(links) |-> Existing(links[i])] \o <<Create>>

\* The name validator of create_new that only rejects the empty name.
validate_name_nonempty(links, input) == input # <<>>

\* The validator of the name prompt in create_new: TRUE where it returns Ok.
validate_name(links, input) ==
    IF input = <<>> THEN FALSE
    ELSE IF contains(links, input) THEN FALSE
    ELSE TRUE

\* The validator of the URL prompts.
validate_api(input) == UrlParse(input) # "Err"

\* The validator of the API-key prompts.
validate_api_key(input) == ~\E i \in 1..Len(input) : input[i] = " "

\* `if api_key.is_empty() { None } else { Some(api_key) }`
key_of(input) == IF input = <<>> THEN None ELSE Some(input)

\* create_new after its prompts: the link is added and the db committed.
create_new(f, links, name, api, api_key) ==
    commit(f, add_link(links, Link(name, UrlParse(api), key_of(api_key))))

\* modify_existing on the delete path, confirmed.
delete_existing(f, links, link) == commit(f, remove_link(links, link.name))

\* modify_existing on the modify path, after its prompts.
modify_existing(f, links, link, api, api_key) ==
    commit(f, modify_link(links, link.name, Link(link.name, UrlParse(api), key_of(api_key))))

\* The part every run of handle_link shares; o is what LinkDb::open
\* returned at its start.
LinkRun(o, result, file, committed) ==
    /\ ~db.open
    /\ fs' = file
    /\ ret' = result
    /\ db' = NoDb
    /\ op' = "link"
    /\ was' = fs.kind
    /\ ui' = IF o.ret.status = "Ok" THEN Prompt(link_items(o.ret.val)) ELSE NoPrompt
    /\ disk' = IF committed /\ result.status = "Ok"
               THEN [by |-> "commit", links |-> arg'.written,
                     shrunk |-> Len(file.content) < Len(fs.content)]
               ELSE disk
    /\ lost' = FALSE
    /\ mod' = NoMod
    /\ UNCHANGED <<node, paths, run>>

\* LinkDb::open fails: handle_link returns its error.
LinkOpenFails(o) ==
    /\ o.ret.status = "Err"
    /\ arg' = NoArg
    /\ LinkRun(o, o.ret, o.fs, FALSE)

\* The user leaves one of the prompts: interact() returns an error.
LinkCancelled(o) ==
    /\ o.ret.status = "Ok"
    /\ arg' = NoArg
    /\ LinkRun(o, Err("Cancelled"), o.fs, FALSE)

LinkCreate(o, name, api, api_key) ==
    /\ validate_api(api)
    /\ validate_api_key(api_key)
    /\ o.ret.status = "Ok"
    /\ Len(o.ret.val) < MaxLinks
    /\ validate_name(o.ret.val, name)
    /\ arg' = [NoArg EXCEPT !.name = name,
                            !.link = Link(name, UrlParse(api), key_of(api_key)),
                            !.written = add_link(o.ret.val, @)]
    /\ LET r == create_new(o.fs, o.ret.val, name, api, api_key)
       IN  LinkRun(o, IF r.ret.status = "Ok" THEN Ok(<<"created">>) ELSE r.ret, r.fs, TRUE)

LinkDelete(o, i) ==
    /\ o.ret.status = "Ok"
    /\ i \in 1..Len(o.ret.val)
    /\ arg' = [NoArg EXCEPT !.name = o.ret.val[i].name, !.link = o.ret.val[i],
                            !.written = remove_link(o.ret.val, o.ret.val[i].name)]
    /\ LET r == delete_existing(o.fs, o.ret.val, o.ret.val[i])
       IN  LinkRun(o, IF r.ret.status = "Ok" THEN Ok(<<"removed">>) ELSE r.ret, r.fs, TRUE)

\* The user answers no to "Delete ... ?": nothing is changed.
LinkDeleteDeclined(o, i) ==
    /\ o.ret.status = "Ok"
    /\ i \in 1..Len(o.ret.val)
    /\ arg' = [NoArg EXCEPT !.name = o.ret.val[i].name, !.link = o.ret.val[i]]
    /\ LinkRun(o, Ok(<<"abort">>), o.fs, FALSE)

LinkModify(o, i, api, api_key) ==
    /\ validate_api(api)
    /\ validate_api_key(api_key)
    /\ o.ret.status = "Ok"
    /\ i \in 1..Len(o.ret.val)
    /\ arg' = [NoArg EXCEPT !.name = o.ret.val[i].name,
                            !.link = Link(o.ret.val[i].name, UrlParse(api), key_of(api_key)),
                            !.written = modify_link(o.ret.val, o.ret.val[i].name, @)]
    /\ LET r == modify_existing(o.fs, o.ret.val, o.ret.val[i], api, api_key)
       IN  LinkRun(o, IF r.ret.status = "Ok" THEN Ok(<<"modified">>) ELSE r.ret, r.fs, TRUE)

NextLink ==
    LET o == open(fs)
    IN  \/ LinkOpenFails(o)
        \/ LinkCancelled(o)
        \/ \E name \in NameInputs, api \in UrlInputs, key \in KeyInputs :
               LinkCreate(o, name, api, key)
        \/ \E i \in 1..MaxLinks : LinkDelete(o, i)
        \/ \E i \in 1..MaxLinks : LinkDeleteDeclined(o, i)
        \/ \E i \in 1..MaxLinks, api \in UrlInputs, key \in KeyInputs :
               LinkModify(o, i, api, key)

\* The links of the lines of the file that deserialize.
FileLinks(f) ==
    LET good == SelectSeq(lines(f.content), LAMBDA l : LineStatus(l) = "Ok")
    IN  [i \in 1..Len(good) |-> from_str(good[i]).link]

Distinct(links) ==
    \A i, j \in 1..Len(links) : links[i].name = links[j].name => i = j

\* The `link` command starts from a LINKS file whose names are distinct.
InitLink ==
    /\ fs \in { f \in InitFs : Distinct(FileLinks(f)) }
    /\ InitRest

SpecLink == InitLink /\ [][NextLink]_vars

-----------------------------------------------------------------------------
(* Node: selection and the HTTP calls, one call per step *)

\* The body of Node::select after `let db = LinkDb::open()?`: o is what
\* open() returned, answer the item the user picks at the prompt, 0 when
\* the user leaves the prompt (interact() returns an error).
select_among(o, answer) ==
    IF o.ret.status = "Err" THEN [ret |-> o.ret, fs |-> o.fs, ui |-> NoPrompt]
    ELSE IF get_links(o.ret.val) = <<>>
    THEN [ret |-> Err("NoLinks"), fs |-> o.fs, ui |-> NoPrompt]
    ELSE IF Len(get_links(o.ret.val)) = 1
    THEN [ret |-> Ok(<<get_links(o.ret.val)[1]>>), fs |-> o.fs, ui |-> NoPrompt]
    ELSE [ret |-> IF answer = 0 THEN Err("Cancelled")
                  ELSE Ok(<<get_links(o.ret.val)[answer]>>),
          fs |-> o.fs, ui |-> Prompt(get_links(o.ret.val))]

\* The same with the first link taken whenever there is one.
select_first_of(o, answer) ==
    IF o.ret.status = "Err" THEN [ret |-> o.ret, fs |-> o.fs, ui |-> NoPrompt]
    ELSE IF o.ret.val = <<>> THEN [ret |-> Err("NoLinks"), fs |-> o.fs, ui |-> NoPrompt]
    ELSE [ret |-> Ok(<<o.ret.val[1]>>), fs |-> o.fs, ui |-> NoPrompt]

\* Node::select that never prompts.
select_first(f, answer) == select_first_of(open(f), answer)

\* Node::select
select(f, answer) == select_among(open(f), answer)

\* StatusCode::is_success
is_success(status) == 300 > status /\ status >= 200

\* The answers to POST /v0/write/introduction: no answer at all (send()
\* fails), or a status line, a body that arrives or not, and is JSON or not.
NotSent == [sent |-> FALSE, status |-> 0, body_read |-> FALSE, body_json |-> FALSE]

Statuses == { 199, 200, 204, 299, 300, 404, 500 }

WriteResponses ==
    { NotSent } \cup [sent : {TRUE}, status : Statuses, body_read : BOOLEAN, body_json : BOOLEAN]

\* Node::write_introduction.  encodes: introduction.to_bytes() succeeds.
write_introduction(link, encodes, resp) ==
    IF UrlJoin(link.api, "/v0/write/introduction") = "Err" THEN Err("UrlJoin")
    ELSE IF ~encodes THEN Err("Encode")
    ELSE IF ~resp.sent THEN Err("Transport")
    ELSE IF ~is_success(resp.status) THEN Ok(<<FALSE>>)
    ELSE IF ~resp.body_read THEN Err("Transport")
    ELSE IF ~resp.body_json THEN Err("Json")
    ELSE Ok(<<TRUE>>)

\* A member of a JSON object: absent, a string, or a number.
Absent == [t |-> "absent", v |-> ""]

Str(v) == [t |-> "str", v |-> v]

Num == [t |-> "num", v |-> ""]

\* cert.get(key).and_then(|s| s.as_str()).unwrap_or_default(): get() is
\* None on a value that is no object, as_str() on a value that is no string.
str_or_default(cert, key) ==
    IF ~cert.obj THEN ""
    ELSE IF cert[key].t = "str" THEN cert[key].v
    ELSE ""

\* BorderlessId::from_str: the identifier, "Err" for text that is none.
\* Identifiers are written in hexadecimal, in either case.
PidParse(text) ==
    CASE text = "0a" -> "0a"
      [] text = "0A" -> "0a"
      [] text = "0b" -> "0b"
      [] OTHER -> "Err"

\* The elements the answer to GET /v0/node/cert may hold.
CertUniverse ==
    { [obj |-> TRUE, participant_id |-> Str("0a"), subject |-> Str("alice")],
      [obj |-> TRUE, participant_id |-> Str("0A"), subject |-> Absent],
      [obj |-> TRUE, participant_id |-> Str("0b"), subject |-> Num],
      [obj |-> TRUE, participant_id |-> Absent, subject |-> Str("carol")],
      [obj |-> TRUE, participant_id |-> Num, subject |-> Str("dave")],
      [obj |-> TRUE, participant_id |-> Str("zz"), subject |-> Str("erin")],
      [obj |-> FALSE, participant_id |-> Absent, subject |-> Absent] }

PeerResponses ==
    { [kind |-> k, certs |-> <<>>] : k \in {"transport", "not_array"} }
        \cup { [kind |-> "array", certs |-> cs] : cs \in SeqsUpTo(CertUniverse, MaxPeers) }

\* The loop of network_peers when an element without identifier is skipped.
RECURSIVE peers_loop_skipping(_, _)
peers_loop_skipping(certs, out) ==
    IF certs = <<>> THEN Ok(out)
    ELSE LET pid == PidParse(str_or_default(Head(certs), "participant_id"))
             name == str_or_default(Head(certs), "subject")
         IN  IF pid = "Err" THEN peers_loop_skipping(Tail(certs), out)
             ELSE peers_loop_skipping(Tail(certs), Append(out, <<name, pid>>))

\* The loop of network_peers: `.parse()?` returns the error of the first
\* element whose participant_id does not parse.
RECURSIVE peers_loop(_, _)
peers_loop(certs, out) ==
    IF certs = <<>> THEN Ok(out)
    ELSE LET pid == PidParse(str_or_default(Head(certs), "participant_id"))
             name == str_or_default(Head(certs), "subject")
         IN  IF pid = "Err" THEN Err("Parse")
             ELSE peers_loop(Tail(certs), Append(out, <<name, pid>>))

\* Node::network_peers
network_peers(link, resp) ==
    IF UrlJoin(link.api, "/v0/node/cert?node_type=contract") = "Err" THEN Err("UrlJoin")
    ELSE IF resp.kind = "transport" THEN Err("Transport")
    ELSE IF resp.kind = "not_array" THEN Err("Json")
    ELSE peers_loop(resp.certs, <<>>)

NodeStep ==
    /\ ~db.open
    /\ was' = fs.kind
    /\ UNCHANGED <<db, disk, lost, mod, paths, run>>

\* Node::new
NodeNew(link) ==
    /\ NodeStep
    /\ node' = NodeOf(link)
    /\ op' = "new"
    /\ arg' = [NoArg EXCEPT !.link = link]
    /\ ret' = Ok(<<>>)
    /\ ui' = NoPrompt
    /\ UNCHANGED fs

\* A call of Node::select that returns r.
SelectReturns(r, answer) ==
    /\ answer = 0 \/ (r.ui.prompted /\ answer <= Len(r.ui.items))
    /\ fs' = r.fs
    /\ ret' = r.ret
    /\ ui' = r.ui
    /\ node' = IF r.ret.status = "Ok" THEN NodeOf(r.ret.val[1]) ELSE node

Select(answer) ==
    /\ NodeStep
    /\ SelectReturns(select(fs, answer), answer)
    /\ op' = "select"
    /\ arg' = NoArg

WriteIntroduction(encodes, resp) ==
    /\ NodeStep
    /\ node.set
    /\ ret' = write_introduction(node.link, encodes, resp)
    /\ op' = "write_introduction"
    /\ arg' = [NoArg EXCEPT !.resp =
                 IF ret'.err \in {"UrlJoin", "Encode"} THEN NotSent ELSE resp]
    /\ ui' = NoPrompt
    /\ UNCHANGED <<fs, node>>

NetworkPeers(resp) ==
    /\ NodeStep
    /\ node.set
    /\ ret' = network_peers(node.link, resp)
    /\ op' = "network_peers"
    /\ arg' = [NoArg EXCEPT !.resp =
                 IF ret'.err = "UrlJoin" THEN [kind |-> "transport", certs |-> <<>>] ELSE resp]
    /\ ui' = NoPrompt
    /\ UNCHANGED <<fs, node>>

NextNode ==
    \/ \E link \in LinkUniverse : NodeNew(link)
    \/ \E answer \in 0..MaxLinks : Select(answer)
    \/ \E encodes \in BOOLEAN, resp \in WriteResponses : WriteIntroduction(encodes, resp)
    \/ \E resp \in PeerResponses : NetworkPeers(resp)

SpecNode == Init /\ [][NextNode]_vars

-----------------------------------------------------------------------------
(* Properties of LinkDb *)

MinOf(S) == CHOOSE x \in S : \A y \in S : x <= y

\* C1: a registry of N links with pairwise distinct names that is
\* committed and opened again comes back as the same N links, field by
\* field and in the same order, whatever the file held before the commit.
C1_CommitOpenRoundTrip ==
    (op = "open" /\ disk.by = "commit" /\ Distinct(disk.links))
        => (ret.status = "Ok" /\ db.open /\ db.links = disk.links)

\* An open() after a commit() that replaced a longer file by MaxLinks
\* links, one of them with a newline in its name.
C1_Witness ==
    /\ op = "open" /\ ret.status = "Ok"
    /\ disk.by = "commit" /\ disk.shrunk
    /\ Len(db.links) = MaxLinks /\ Distinct(db.links)
    /\ \E i \in 1..Len(db.links) : db.links[i].name = <<"b", "LF">>

\* C2: remove_link(name) on a registry that holds no link with that name
\* returns Ok and leaves the sequence of links as it was.
C2_RemoveAbsentIsNoOp ==
    [][ (op' = "remove_link" /\ db.open /\ ~contains(db.links, arg'.name))
          => (ret'.status = "Ok" /\ db'.open /\ db'.links = db.links) ]_vars

\* A remove_link of an absent name on a full registry.
C2_Witness ==
    /\ op = "remove_link" /\ ret = Ok(<<"warning">>)
    /\ Len(db.links) = MaxLinks
    /\ ~contains(db.links, arg.name)

RecordsNamed(links, name) == SelectSeq(links, LAMBDA l : l.name = name)

ModifyOutcome ==
    /\ ret.status = "Ok"
    /\ db.open
    /\ RecordsNamed(db.links, mod.name) = <<mod.link>>
    /\ Len(db.links) = IF mod.matches > 0 THEN mod.count ELSE mod.count + 1

\* C3 as stated, for every registry: after modify_link(name, new) with
\* new.name = name, commit() and open(), the record named `name` is `new`
\* and the count is the old count if `name` was present, one more if not.
C3_ModifyCommitOpen_AnyRegistry ==
    (mod.stage = "reopened" /\ mod.link.name = mod.name) => ModifyOutcome

\* C3, amended: the same for every registry that holds at most one record
\* named `name`.
C3_ModifyCommitOpen ==
    (mod.stage = "reopened" /\ mod.link.name = mod.name /\ mod.matches <= 1)
        => ModifyOutcome

\* modify_link of a present name, then commit() and open().
C3_Witness ==
    /\ mod.stage = "reopened" /\ op = "open"
    /\ mod.link.name = mod.name /\ mod.matches = 1
    /\ mod.count = MaxLinks
    /\ db.links[Len(db.links)] = mod.link

MutatingOps == {"add_link", "remove_link", "modify_link", "contains", "get_links", "drop"}

\* C4: the LINKS file changes only in commit(): add_link, remove_link,
\* modify_link, contains, get_links and the drop of the registry leave the
\* file as it is, and an open() after a registry was dropped with changes
\* that were not committed returns the records of the file as before.
C4_FileChangesOnlyInCommit ==
    [][ /\ (op' \in MutatingOps => fs' = fs)
        /\ (op' = "open" /\ disk.by = "open" => ret'.status = "Ok" /\ db'.links = disk.links)
      ]_vars

\* An open() after a registry with uncommitted changes was dropped.
C4_Witness ==
    /\ op = "open" /\ lost /\ disk.by = "open"
    /\ Len(disk.links) = MaxLinks
    /\ db.links = disk.links

\* C6: open() creates an empty file when there is none and returns an
\* empty registry; it fails and changes nothing when the path is not a
\* regular file; it never modifies a file that exists.
C6_OpenCreatesOrLeaves ==
    [][ op' = "open" =>
          /\ fs.kind = "absent" =>
                (fs' = File(<<>>) /\ ret'.status = "Ok" /\ db'.open /\ db'.links = <<>>)
          /\ fs.kind = "dir" => (ret'.status = "Err" /\ ~db'.open /\ fs' = fs)
          /\ fs.kind = "file" => fs' = fs
      ]_vars

\* An open() that created the file.
C6_Witness ==
    op = "open" /\ was = "absent" /\ fs = File(<<>>) /\ ret = Ok(<<>>) /\ db.open

NonEmptyLines(c) == SelectSeq(lines(c), LAMBDA l : l # <<>>)

Deserializes(line) == LineStatus(line) = "Ok"

\* C7 as stated: open() fails with the corrupted-data error exactly when
\* some non-empty line does not deserialize to a Link; otherwise it returns
\* one link per non-empty line, in file order.
C7_CorruptedIffBadNonEmptyLine ==
    [][ (op' = "open" /\ fs.kind = "file") =>
          LET ls == NonEmptyLines(fs.content)
              bad == \E i \in 1..Len(ls) : ~Deserializes(ls[i])
          IN  /\ (ret'.status = "Err" /\ ret'.err = "Corrupted") <=> bad
              /\ ~bad => /\ ret'.status = "Ok"
                         /\ db'.links = [i \in 1..Len(ls) |-> from_str(ls[i]).link]
      ]_vars

\* C7, amended: open() fails exactly when some line, an empty line
\* included, does not deserialize to a Link: with the corrupted-data error
\* when the first such line is valid UTF-8, with the I/O error of the read
\* when it is not; otherwise it returns one link per line, in file order.
C7_FailsIffBadLine ==
    [][ (op' = "open" /\ fs.kind = "file") =>
          LET ls == lines(fs.content)
              bad == { i \in 1..Len(ls) : ~Deserializes(ls[i]) }
          IN  /\ ret'.status = "Err" <=> bad # {}
              /\ bad # {} => ret'.err = (IF \E k \in 1..Len(ls[MinOf(bad)]) : ls[MinOf(bad)][k] = "xFF"
                                         THEN "Io" ELSE "Corrupted")
              /\ bad = {} => /\ db'.open
                             /\ Len(db'.links) = Len(ls)
                             /\ \A i \in 1..Len(ls) : db'.links[i] = from_str(ls[i]).link
      ]_vars

\* An open() that fails on a file whose only bad line is an empty one.
C7_Witness ==
    /\ op = "open" /\ ret = Err("Corrupted") /\ fs.kind = "file"
    /\ \E i \in 1..Len(lines(fs.content)) : lines(fs.content)[i] = <<>>
    /\ \A i \in 1..Len(lines(fs.content)) :
           lines(fs.content)[i] # <<>> => Deserializes(lines(fs.content)[i])

-----------------------------------------------------------------------------
(* Properties of the `link` command *)

\* C5: link names stay unique: from a LINKS file with pairwise distinct
\* names, after any sequence of runs of the `link` command (create, modify
\* or delete, one run at a time) the file never holds two links with the
\* same name.
C5_NamesStayUnique == fs.kind = "file" => Distinct(FileLinks(fs))

\* A run that created a link under a new name in a file that held links
\* already and holds MaxLinks links now.
C5_Witness ==
    /\ op = "link" /\ ret = Ok(<<"created">>)
    /\ disk.by = "commit"
    /\ Len(FileLinks(fs)) = MaxLinks
    /\ FileLinks(fs)[MaxLinks] = arg.link
    /\ \E i \in 1..(MaxLinks - 1) : FileLinks(fs)[i].api_key = Some(<<"k">>)

-----------------------------------------------------------------------------
(* Properties of Node *)

SelectOutcome(links) ==
    /\ Len(links) = 0 => (ret' = Err("NoLinks") /\ ~ui'.prompted)
    /\ Len(links) = 1 => (ret' = Ok(<<links[1]>>) /\ ~ui'.prompted)
    /\ Len(links) > 1 => (ui'.prompted /\ ui'.items = links)
    /\ ret'.status = "Ok" =>
          /\ \E i \in 1..Len(links) : ret'.val = <<links[i]>>
          /\ node' = NodeOf(ret'.val[1])

\* C8 as stated: Node::select fails with the no-links error on an empty
\* registry, returns the only link of a registry of one without a prompt,
\* prompts among all links otherwise; a selected link is one of the links
\* of the registry; and select never changes the registry file.
C8_SelectNeverChangesFile ==
    [][ (op' = "select" /\ open(fs).ret.status = "Ok")
          => (SelectOutcome(open(fs).ret.val) /\ fs' = fs) ]_vars

\* C8, amended: the same, except that select creates the registry file,
\* empty, when there is none; it never changes a registry file that exists.
C8_SelectProtocol ==
    [][ (op' = "select" /\ open(fs).ret.status = "Ok")
          => /\ SelectOutcome(open(fs).ret.val)
             /\ fs.kind = "file" => fs' = fs
             /\ fs.kind = "absent" => fs' = File(<<>>) ]_vars

\* A select that prompted among MaxLinks links and returned the last one.
C8_Witness ==
    /\ op = "select" /\ ret.status = "Ok"
    /\ ui.prompted /\ Len(ui.items) = MaxLinks
    /\ node = NodeOf(ui.items[MaxLinks])
    /\ ui.items[1] # ui.items[MaxLinks]

\* C9: whenever the HTTP round trip of write_introduction completes with a
\* response, the call returns Ok(true) if the status is 2xx and Ok(false)
\* if it is not; it returns Err only for a failure of the network.
C9_TrueIffSuccessStatus ==
    [][ (op' = "write_introduction" /\ arg'.resp.sent /\ arg'.resp.body_read)
          => ret' = Ok(<<arg'.resp.status >= 200 /\ arg'.resp.status <= 299>>) ]_vars

BadCert(cert) ==
    \/ ~cert.obj
    \/ cert.participant_id.t # "str"
    \/ PidParse(cert.participant_id.v) = "Err"

\* C10: network_peers() fails as a whole, with no partial list, when an
\* element of the array has an absent, non-string or malformed
\* participant_id; otherwise it returns one (name, identifier) pair per
\* element, in the order received.
C10_PeersAllOrNothing ==
    [][ (op' = "network_peers" /\ arg'.resp.kind = "array") =>
          LET certs == arg'.resp.certs
          IN  IF \E i \in 1..Len(certs) : BadCert(certs[i])
              THEN ret'.status = "Err" /\ ret'.val = <<>>
              ELSE /\ ret'.status = "Ok"
                   /\ Len(ret'.val) = Len(certs)
                   /\ \A i \in 1..Len(certs) :
                         /\ ret'.val[i][2] = PidParse(certs[i].participant_id.v)
                         /\ ret'.val[i][1] = (IF certs[i].subject.t = "str"
                                              THEN certs[i].subject.v ELSE "")
      ]_vars

\* A network_peers that failed on a bad element that came after a good one.
C10_Witness ==
    /\ op = "network_peers" /\ ret = Err("Parse")
    /\ arg.resp.kind = "array" /\ Len(arg.resp.certs) = MaxPeers
    /\ ~BadCert(arg.resp.certs[1])
    /\ BadCert(arg.resp.certs[MaxPeers])

-----------------------------------------------------------------------------
(* serde_json::Value and its text.  The tokens of a JSON text here are the *)
(* punctuation "{", "}", ":", ",", the blank " ", a string with its quotes *)
(* and the text of a value that holds no object: null, true, [], a number. *)

\* The strings the documents hold, in the order of the keys of
\* serde_json::Map (a BTreeMap: the order of the bytes of the key).
JsonStrings == <<"\"app_name\"", "\"name\"", "\"package\"", "\"participants\"", "\"x\"", "\"y\"">>

JsonStringSet == { JsonStrings[i] : i \in 1..Len(JsonStrings) }

\* The texts of the other values without members.  A number is read into
\* an f64 or u64 and written in its shortest form.
JsonAtoms == { "null", "true", "[]", "1", "1e2", "100.0" }

AtomValue(tok) == IF tok = "1e2" THEN "100.0" ELSE tok

JAtom(a) == [t |-> "atom", a |-> a]

JObj(m) == [t |-> "obj", m |-> m]

\* Map::insert that keeps the value of a key the map already holds.
MapInsertIfAbsent(m, key, val) ==
    [k \in DOMAIN m \cup {key} |-> IF k \in DOMAIN m THEN m[k] ELSE val]

\* Map::insert: the value under key is replaced, or the key is added.
MapInsert(m, key, val) ==
    [k \in DOMAIN m \cup {key} |-> IF k = key THEN val ELSE m[k]]

JsonFail == [ok |-> FALSE, val |-> JAtom("null"), next |-> 0]

RECURSIVE SkipWs(_, _)
SkipWs(t, i) == IF i <= Len(t) /\ t[i] = " " THEN SkipWs(t, i + 1) ELSE i

RECURSIVE ParseValue(_, _)
RECURSIVE ParseMembers(_, _, _)
RECURSIVE MemberValue(_, _, _, _)

\* One value of the text t from position i on: the value and the position
\* after it.
ParseValue(t, i) ==
    LET j == SkipWs(t, i)
    IN  IF j > Len(t) THEN JsonFail
        ELSE IF t[j] \in JsonAtoms
        THEN [ok |-> TRUE, val |-> JAtom(AtomValue(t[j])), next |-> j + 1]
        ELSE IF t[j] \in JsonStringSet
        THEN [ok |-> TRUE, val |-> JAtom(t[j]), next |-> j + 1]
        ELSE IF t[j] = "{"
        THEN IF SkipWs(t, j + 1) <= Len(t) /\ t[SkipWs(t, j + 1)] = "}"
             THEN [ok |-> TRUE, val |-> JObj(<<>>), next |-> SkipWs(t, j + 1) + 1]
             ELSE ParseMembers(t, j + 1, <<>>)
        ELSE JsonFail

\* The members of an object from position i on, m being the members read
\* so far: a key, a colon, a value, then a comma or the closing brace.
ParseMembers(t, i, m) ==
    LET k == SkipWs(t, i)
        c == SkipWs(t, k + 1)
    IN  IF k > Len(t) \/ c > Len(t) THEN JsonFail
        ELSE IF t[k] \notin JsonStringSet \/ t[c] # ":" THEN JsonFail
        ELSE MemberValue(t, m, t[k], ParseValue(t, c + 1))

\* v is the value read for key: of two members with one key the later one
\* stays in the map.
MemberValue(t, m, key, v) ==
    IF ~v.ok THEN JsonFail
    ELSE LET e == SkipWs(t, v.next)
         IN  IF e > Len(t) THEN JsonFail
             ELSE IF t[e] = "," THEN ParseMembers(t, e + 1, MapInsert(m, key, v.val))
             ELSE IF t[e] = "}"
             THEN [ok |-> TRUE, val |-> JObj(MapInsert(m, key, v.val)), next |-> e + 1]
             ELSE JsonFail

\* The whole text must be one value, blanks aside.
WholeText(t, v) ==
    IF v.ok /\ SkipWs(t, v.next) > Len(t) THEN Ok(v.val) ELSE Err("Json")

\* serde_json::from_reader::<Value> and from_slice::<Value>
ValueFromText(t) == WholeText(t, ParseValue(t, 1))

RECURSIVE ValueToText(_)
RECURSIVE MembersToText(_, _, _)

\* The members of m whose keys are JsonStrings[i..], in that order, each
\* after a comma unless it is the first.
MembersToText(m, i, first) ==
    IF i > Len(JsonStrings) THEN <<>>
    ELSE IF JsonStrings[i] \notin DOMAIN m THEN MembersToText(m, i + 1, first)
    ELSE (IF first THEN <<>> ELSE <<",">>)
             \o <<JsonStrings[i], ":">> \o ValueToText(m[JsonStrings[i]])
             \o MembersToText(m, i + 1, FALSE)

\* Value::to_string: the compact text, keys in the order of the map.
ValueToText(v) ==
    IF v.t = "atom" THEN <<v.a>>
    ELSE <<"{">> \o MembersToText(v.m, 1, TRUE) \o <<"}">>

-----------------------------------------------------------------------------
(* The `deploy` command: one run of handle_deploy per step *)

\* Path::exists, Path::is_file and fs::read on what a path names.
exists(p) == p.kind # "absent"

is_file(p) == p.kind = "file"

is_dir(p) == p.kind = "dir"

read(p) == IF p.kind = "file" THEN Ok(p.content) ELSE Err("Io")

\* The texts an introduction file may hold: objects with and without a
\* package, with blanks, with one key twice; values that are no object;
\* texts that are no JSON.
ObjectTexts ==
    { <<"{", "}">>,
      <<"{", "\"participants\"", ":", "[]", "}">>,
      <<" ", "{", "\"participants\"", ":", " ", "1e2", ",", "\"package\"", ":", "{", "}", "}", " ">>,
      <<"{", "\"package\"", ":", "{", "\"name\"", ":", "\"y\"", "}", ",", "\"x\"", ":", "\"y\"", "}">>,
      <<"{", "\"package\"", ":", "null", ",", "\"x\"", ":", "1", ",", "\"x\"", ":", "true", "}">> }

NonObjectTexts == { <<"[]">>, <<"\"x\"">>, <<"1">>, <<"true">>, <<"null">> }

NoJsonTexts == { <<>>, <<"{">>, <<"{", "\"x\"", "}">>, <<"{", "}", "1">>,
                 <<"{", "\"x\"", ":", "1", ",", "}">> }

\* Introduction::from_bytes: the document must be a JSON object.
Introduction_from_bytes(content) ==
    IF ValueFromText(content).status = "Err" THEN Err("Parse")
    ELSE IF ValueFromText(content).val.t # "obj" THEN Err("Parse")
    ELSE ValueFromText(content)

DeployEnd(result, called, outro) == [ret |-> result, called |-> called, outro |-> outro]

\* The end of handle_deploy: wi is what write_introduction returned.
deploy_outro(wi) ==
    IF wi.status = "Err" THEN DeployEnd(wi, TRUE, "")
    ELSE IF wi.val[1] THEN DeployEnd(Ok(<<>>), TRUE, "Wrote introduction")
    ELSE DeployEnd(Ok(<<>>), TRUE, "Failed to write introduction")

\* handle_deploy after Node::select returned r: the checks of the path, the
\* read, the parse and the call of write_introduction.
handle_deploy(r, path, encodes, resp) ==
    IF r.ret.status = "Err" THEN DeployEnd(r.ret, FALSE, "")
    ELSE IF exists(path) THEN DeployEnd(Err("DoesNotExist"), FALSE, "")
    ELSE IF is_file(path) THEN DeployEnd(Err("IsNotAFile"), FALSE, "")
    ELSE IF read(path).status = "Err" THEN DeployEnd(read(path), FALSE, "")
    ELSE IF Introduction_from_bytes(read(path).val).status = "Err"
    THEN DeployEnd(Err("Parse"), FALSE, "")
    ELSE deploy_outro(write_introduction(r.ret.val[1], encodes, resp))

DeployDone(r, d, encodes, resp) ==
    /\ fs' = r.fs
    /\ ui' = r.ui
    /\ node' = IF r.ret.status = "Ok" THEN NodeOf(r.ret.val[1]) ELSE node
    /\ ret' = d.ret
    /\ run' = [cmd |-> "deploy", path |-> paths.intro,
               selected |-> r.ret.status = "Ok",
               called |-> d.called,
               sent |-> d.called /\ d.ret.err \notin {"UrlJoin", "Encode"},
               encodes |-> d.called /\ encodes,
               resp |-> IF d.called THEN resp ELSE NotSent,
               outro |-> d.outro]

DeployRun(r, answer, encodes, resp) ==
    /\ answer = 0 \/ (r.ui.prompted /\ answer <= Len(r.ui.items))
    /\ DeployDone(r, handle_deploy(r, paths.intro, encodes, resp), encodes, resp)

Deploy(answer, encodes, resp) ==
    /\ ~db.open
    /\ was' = fs.kind
    /\ UNCHANGED <<db, disk, lost, mod, paths>>
    /\ DeployRun(select(fs, answer), answer, encodes, resp)
    /\ op' = "deploy"
    /\ arg' = NoArg

NextDeploy ==
    \E answer \in 0..MaxLinks, encodes \in BOOLEAN, resp \in WriteResponses :
        Deploy(answer, encodes, resp)

\* The introduction path of a run of deploy.
DeployPaths ==
    { NoFile, Directory }
        \cup { File(c) : c \in ObjectTexts \cup NonObjectTexts \cup NoJsonTexts }

InitDeploy ==
    /\ fs \in InitFs
    /\ InitLinkDb
    /\ paths \in { [intro |-> p] : p \in DeployPaths }
    /\ run = NoRun

SpecDeploy == InitDeploy /\ [][NextDeploy]_vars

\* C11: once a node is selected, a run of deploy fails without sending a
\* request when the introduction path is missing or is no regular file, and
\* calls write_introduction when the path is a regular file that holds a
\* valid introduction.
C11_DeployRequiresRegularFile ==
    (run.cmd = "deploy" /\ run.selected) =>
        /\ ~is_file(run.path) => (ret.status = "Err" /\ ~run.sent)
        /\ (is_file(run.path) /\ Introduction_from_bytes(run.path.content).status = "Ok")
               => run.called

\* C12: a run of deploy in which write_introduction returned false ends Ok
\* with the failure message; a run that ends in an error had a selection
\* failure, a path that is no regular file holding a valid introduction, or
\* a transport failure.
C12_OnlyHardFailuresAreErrors ==
    run.cmd = "deploy" =>
        /\ (run.called /\ run.resp.sent /\ ~is_success(run.resp.status)
                /\ run.encodes /\ UrlJoin(node.link.api, "/v0/write/introduction") # "Err")
               => (ret.status = "Ok" /\ run.outro = "Failed to write introduction")
        /\ ret.status = "Err" =>
               \/ ~run.selected
               \/ ~is_file(run.path)
               \/ Introduction_from_bytes(run.path.content).status = "Err"
               \/ ret.err = "Transport"

-----------------------------------------------------------------------------
(* The `merge` command: one run of handle_merge per step *)

WasmPkg(name, app_name) == [name |-> name, app_name |-> app_name]

\* Deserialize for WasmPkg, of which the model keeps the name, which is
\* required, and app_name, which is optional; other keys are ignored.
wasm_pkg_of(v) ==
    IF v.t # "obj" THEN Err("Json")
    ELSE IF "\"name\"" \notin DOMAIN v.m THEN Err("Json")
    ELSE IF v.m["\"name\""].t # "atom" THEN Err("Json")
    ELSE IF v.m["\"name\""].a \notin JsonStringSet THEN Err("Json")
    ELSE IF "\"app_name\"" \notin DOMAIN v.m THEN Ok(WasmPkg(v.m["\"name\""].a, "null"))
    ELSE IF v.m["\"app_name\""].t # "atom" THEN Err("Json")
    ELSE IF v.m["\"app_name\""].a \notin JsonStringSet \cup {"null"} THEN Err("Json")
    ELSE Ok(WasmPkg(v.m["\"name\""].a, v.m["\"app_name\""].a))

\* read_buffered::<WasmPkg>
WasmPkg_from_text(t) ==
    IF ValueFromText(t).status = "Err" THEN Err("Json")
    ELSE wasm_pkg_of(ValueFromText(t).val)

\* serde_json::to_value(package)
to_value(package) ==
    JObj([k \in {"\"name\"", "\"app_name\""} |->
            IF k = "\"name\"" THEN JAtom(package.name) ELSE JAtom(package.app_name)])

\* The texts a package definition file may hold.
PackageTexts ==
    { <<"{", "\"name\"", ":", "\"x\"", "}">>,
      <<"{", "\"name\"", ":", "\"y\"", ",", "\"x\"", ":", "1", "}">>,
      <<"{", "\"name\"", ":", "\"y\"", ",", "\"app_name\"", ":", "\"x\"", "}">>,
      <<"{", "\"x\"", ":", "1", "}">>,
      <<"{", "\"name\"", ":", "1", "}">>,
      <<"[]">>,
      <<"{">> }

MergeEnd(result, intro, prompted) ==
    [ret |-> result, intro |-> intro, prompted |-> prompted]

\* handle_merge from the confirmation on, the other way round: the file is
\* written first, the user asked afterwards.
write_then_confirm(intro, merged, confirm_creation, answer) ==
    IF confirm_creation /\ answer = "esc"
    THEN MergeEnd(Err("Interact"), File(ValueToText(merged)), TRUE)
    ELSE IF confirm_creation /\ answer = "no"
    THEN MergeEnd(Err("Aborted"), File(ValueToText(merged)), TRUE)
    ELSE MergeEnd(Ok(<<>>), File(ValueToText(merged)), confirm_creation)

\* handle_merge from the confirmation on: the prompt when the config asks
\* for it, then fs::write of the text of the merged document.
confirm_and_write(intro, merged, confirm_creation, answer) ==
    IF confirm_creation /\ answer = "esc" THEN MergeEnd(Err("Interact"), intro, TRUE)
    ELSE IF confirm_creation /\ answer = "no" THEN MergeEnd(Err("Aborted"), intro, TRUE)
    ELSE MergeEnd(Ok(<<>>), File(ValueToText(merged)), confirm_creation)

\* handle_merge that takes every JSON value for an introduction and writes
\* a value that is no object back as it is.
merge_any_value(intro, v, d, confirm_creation, answer) ==
    IF v.status = "Err" THEN MergeEnd(Err("Json"), intro, FALSE)
    ELSE IF d.status = "Err" THEN MergeEnd(Err("Json"), intro, FALSE)
    ELSE IF v.val.t # "obj" THEN confirm_and_write(intro, v.val, confirm_creation, answer)
    ELSE confirm_and_write(intro, JObj(MapInsert(v.val.m, "\"package\"", to_value(d.val))),
                           confirm_creation, answer)

\* handle_merge from the parse of the introduction on: v is what
\* read_buffered::<Value> made of the introduction file, d what
\* read_buffered::<WasmPkg> makes of the package file.
merge_package(intro, v, d, confirm_creation, answer) ==
    IF v.status = "Err" THEN MergeEnd(Err("Json"), intro, FALSE)
    ELSE IF v.val.t # "obj" THEN MergeEnd(Err("NotObject"), intro, FALSE)
    ELSE IF d.status = "Err" THEN MergeEnd(Err("Json"), intro, FALSE)
    ELSE confirm_and_write(intro, JObj(MapInsert(v.val.m, "\"package\"", to_value(d.val))),
                           confirm_creation, answer)

\* handle_merge
handle_merge(intro, pkg, confirm_creation, answer) ==
    IF ~exists(intro) THEN MergeEnd(Err("NoIntroduction"), intro, FALSE)
    ELSE IF ~is_file(intro) THEN MergeEnd(Err("NotAFile"), intro, FALSE)
    ELSE IF ~exists(pkg) THEN MergeEnd(Err("NoPackage"), intro, FALSE)
    ELSE IF ~is_file(pkg) THEN MergeEnd(Err("NotAFile"), intro, FALSE)
    ELSE merge_package(intro, ValueFromText(intro.content), WasmPkg_from_text(pkg.content),
                       confirm_creation, answer)

\* The path that the message of a failed check of handle_merge displays.
error_path(intro, pkg) ==
    IF ~exists(intro) THEN "introduction_path"
    ELSE IF ~is_file(intro) THEN "introduction_path"
    ELSE IF ~exists(pkg) THEN "introduction_path"
    ELSE IF ~is_file(pkg) THEN "package_path"
    ELSE "none"

Answers == {"yes", "no", "esc"}

MergeDone(r, confirm_creation, answer) ==
    /\ paths' = [paths EXCEPT !.intro = r.intro]
    /\ ret' = r.ret
    /\ run' = [cmd |-> "merge", before |-> paths.intro, pkg |-> paths.pkg,
               confirm_creation |-> confirm_creation, answer |-> answer,
               prompted |-> r.prompted,
               named |-> error_path(paths.intro, paths.pkg),
               again |-> /\ run.cmd = "merge"
                         /\ run.ok
                         /\ r.ret.status = "Ok"
                         /\ WasmPkg_from_text(run.pkg.content)
                                = WasmPkg_from_text(paths.pkg.content),
               ok |-> r.ret.status = "Ok"]

Merge(confirm_creation, answer) ==
    /\ MergeDone(handle_merge(paths.intro, paths.pkg, confirm_creation, answer),
                 confirm_creation, answer)
    /\ op' = "merge"
    /\ arg' = NoArg
    /\ UNCHANGED <<fs, db, was, disk, lost, mod, ui, node>>

\* The package file is replaced between two runs of merge: a run of pack
\* in the project directory writes package.json anew.
PackageChanges(text) ==
    /\ paths.pkg # File(text)
    /\ paths' = [paths EXCEPT !.pkg = File(text)]
    /\ op' = "pack"
    /\ UNCHANGED <<fs, db, arg, ret, was, disk, lost, mod, ui, node, run>>

NextMerge ==
    \/ \E confirm_creation \in BOOLEAN, answer \in Answers : Merge(confirm_creation, answer)
    \/ \E text \in PackageTexts : PackageChanges(text)

MergePaths(texts) == { NoFile, Directory } \cup { File(c) : c \in texts }

InitMerge ==
    /\ fs = NoFile
    /\ InitLinkDb
    /\ paths \in [intro : MergePaths(ObjectTexts \cup NonObjectTexts \cup NoJsonTexts),
                  pkg : MergePaths(PackageTexts)]
    /\ run = NoRun

SpecMerge == InitMerge /\ [][NextMerge]_vars

\* The value an introduction file holds.
IntroValue(p) == ValueFromText(p.content).val

\* C13: a run of merge that succeeds leaves in the introduction file an
\* object whose "package" member is the serialized descriptor and whose
\* other members are those of the introduction it read; when the run before
\* it merged the same descriptor, the file stays as it is.
C13_MergeSetsPackageOnly ==
    [][(op' = "merge" /\ ret'.status = "Ok") =>
          /\ is_file(paths'.intro)
          /\ ValueFromText(paths'.intro.content).status = "Ok"
          /\ IntroValue(paths'.intro).t = "obj"
          /\ DOMAIN IntroValue(paths'.intro).m
                 = DOMAIN IntroValue(paths.intro).m \cup {"\"package\""}
          /\ IntroValue(paths'.intro).m["\"package\""]
                 = to_value(WasmPkg_from_text(paths.pkg.content).val)
          /\ \A k \in DOMAIN IntroValue(paths.intro).m \ {"\"package\""} :
                 IntroValue(paths'.intro).m[k] = IntroValue(paths.intro).m[k]
          /\ run'.again => paths'.intro = paths.intro
      ]_vars

\* A merge that replaced the package of an introduction with other members
\* by a different one.
C13_Witness ==
    /\ run.cmd = "merge" /\ run.ok
    /\ "\"package\"" \in DOMAIN IntroValue(run.before).m
    /\ IntroValue(run.before).m["\"package\""] # IntroValue(paths.intro).m["\"package\""]
    /\ Cardinality(DOMAIN IntroValue(paths.intro).m) >= 2
    /\ run.before.content # paths.intro.content

\* C14: a run of merge fails when the introduction file holds a JSON value
\* that is no object, and no run of merge that fails changes the
\* introduction file.
C14_FailedMergeLeavesFile ==
    [][op' = "merge" =>
          /\ ( /\ is_file(paths.intro)
               /\ ValueFromText(paths.intro.content).status = "Ok"
               /\ IntroValue(paths.intro).t # "obj" ) => ret'.status = "Err"
          /\ ret'.status = "Err" => paths'.intro = paths.intro
      ]_vars

\* A run that failed on an introduction that is an array, a string, a
\* number, a boolean or null, next to a package file that is valid.
C14_Witness ==
    /\ run.cmd = "merge" /\ ret.err = "NotObject"
    /\ run.before.content \in NonObjectTexts
    /\ is_file(run.pkg)
    /\ WasmPkg_from_text(run.pkg.content).status = "Ok"

\* C15: a run of merge in which the user declines the prompt ends with the
\* abort error and the introduction file unchanged, and a run changes the
\* file only when the config asks for no confirmation or the user has
\* confirmed.
C15_WriteAfterConfirmation ==
    [][op' = "merge" =>
          /\ (run'.confirm_creation /\ run'.prompted /\ run'.answer = "no")
                 => (ret'.err = "Aborted" /\ paths'.intro = paths.intro)
          /\ paths'.intro # paths.intro
                 => (~run'.confirm_creation \/ (run'.prompted /\ run'.answer = "yes"))
      ]_vars

\* A run that was declined, of a merge that would have changed the file.
C15_Witness ==
    /\ run.cmd = "merge" /\ run.confirm_creation /\ run.prompted /\ run.answer = "no"
    /\ ret.err = "Aborted"
    /\ handle_merge(paths.intro, paths.pkg, FALSE, "no").intro # paths.intro

-----------------------------------------------------------------------------
(* Strings typed at the prompts of `init` and the validators of the       *)
(* prompts.  A String is a sequence of characters; "u00E9" is the letter  *)
(* e with acute accent, which takes two bytes in UTF-8.                    *)

AsciiLetters ==
    {"a", "b", "c", "d", "e", "m", "n", "o", "r", "t", "y",
     "A", "E", "H", "M", "N", "O", "R", "S", "T", "U"}

WideLetters == {"u00E9"}

Digits == {"1"}

\* char::is_alphabetic, char::is_alphanumeric, char::is_whitespace
is_alphabetic(c) == c \in AsciiLetters \cup WideLetters

is_alphanumeric(c) == is_alphabetic(c) \/ c \in Digits

is_whitespace(c) == c = " "

\* char::len_utf8
len_utf8(c) == IF c \in WideLetters THEN 2 ELSE 1

\* String::len: the number of bytes.
str_len(s) == Len(s) + Cardinality({ i \in 1..Len(s) : len_utf8(s[i]) = 2 })

\* str::trim
RECURSIVE trim(_)
trim(s) ==
    IF s = <<>> THEN s
    ELSE IF is_whitespace(s[1]) THEN trim(Tail(s))
    ELSE IF is_whitespace(s[Len(s)]) THEN trim(SubSeq(s, 1, Len(s) - 1))
    ELSE s

\* str::contains(char)
str_contains(s, c) == \E i \in 1..Len(s) : s[i] = c

\* The limits of the validators.
MaxNameLen == 50

MaxEmailLen == 254

\* validate_name of init.rs (the `link` command has a validate_name of its
\* own, above)
validate_pkg_name(input) ==
    IF trim(input) = <<>> THEN "Contract name cannot be empty"
    ELSE IF ~ \A i \in 1..Len(input) : is_alphanumeric(input[i]) \/ input[i] \in {"-", "_"}
    THEN "Only letters, numbers, hyphens and underscores allowed"
    ELSE IF str_len(input) > MaxNameLen THEN "Contract name must be 50 characters or less"
    ELSE "Ok"

\* The validator of the "Name:" prompt of query_author
validate_author(input) ==
    IF trim(input) = <<>> THEN "Name cannot be empty"
    ELSE IF ~ \A i \in 1..Len(input) : is_alphabetic(input[i]) \/ is_whitespace(input[i])
    THEN "Only letters allowed"
    ELSE IF str_len(input) > MaxNameLen THEN "Contract name must be 50 characters or less"
    ELSE "Ok"

\* The validator of the "Email:" prompt of query_author
validate_email(input) ==
    IF trim(input) = <<>> THEN "Email cannot be empty"
    ELSE IF ~str_contains(trim(input), "@") THEN "Email must contain @"
    ELSE IF ~str_contains(trim(input), ".") THEN "Email must contain a domain"
    ELSE IF str_len(trim(input)) > MaxEmailLen THEN "Email must be 254 characters or less"
    ELSE IF trim(input)[1] = "@" \/ trim(input)[Len(trim(input))] = "@"
    THEN "Invalid email format"
    ELSE "Ok"

\* n times the character c
Rep(c, n) == [i \in 1..n |-> c]

\* What the user may type at the name prompt: the names of the examples,
\* and a short start followed by a run of one character, of a length
\* around the limit in characters and in bytes.
PkgNameInputs ==
    { <<"m", "y", "-", "c", "o", "n", "t", "r", "a", "c", "t", "_", "1">>,
      <<"b", "a", "d", " ", "n", "a", "m", "e", "!">> }
        \cup { pre \o Rep(c, n) :
                 pre \in { <<>>, <<"a">>, <<"-">>, <<" ">>, <<"!">>, <<"u00E9">> },
                 c \in { "a", "1", "_", " ", "u00E9" },
                 n \in { 0, 1, MaxNameLen \div 2 - 1, MaxNameLen \div 2, MaxNameLen \div 2 + 1,
                         MaxNameLen - 1, MaxNameLen, MaxNameLen + 1 } }

\* What the user may type at the email prompt.
EmailInputs ==
    { <<"a", "@", "b", ".", "c", "o">>, <<"@", "b", ".", "c", "o">>, <<"a", "@">>, <<>> }
        \cup { pre \o Rep(c, n) \o suf :
                 pre \in { <<>>, <<"a">>, <<"@">>, <<" ">> },
                 c \in { "a", ".", "u00E9" },
                 n \in { 1, MaxEmailLen \div 2 - 3, MaxEmailLen - 6, MaxEmailLen - 5,
                         MaxEmailLen - 4, MaxEmailLen - 1, MaxEmailLen, MaxEmailLen + 1 },
                 suf \in { <<>>, <<"@", "b", ".", "c">>, <<"@">>, <<".", " ">> } }

\* One answer typed at the name prompt of handle_init: the validator runs
\* on it and the prompt shows its message or takes the answer.
NamePrompt(input) ==
    /\ run' = [cmd |-> "name", input |-> input, verdict |-> validate_pkg_name(input)]
    /\ op' = "prompt"
    /\ UNCHANGED <<fs, db, arg, ret, was, disk, lost, mod, ui, node, paths>>

\* One answer typed at the email prompt of query_author.
EmailPrompt(input) ==
    /\ run' = [cmd |-> "email", input |-> input, verdict |-> validate_email(input)]
    /\ op' = "prompt"
    /\ UNCHANGED <<fs, db, arg, ret, was, disk, lost, mod, ui, node, paths>>

NextPrompt ==
    \/ \E input \in PkgNameInputs : NamePrompt(input)
    \/ \E input \in EmailInputs : EmailPrompt(input)

InitPrompt ==
    /\ fs = NoFile
    /\ InitLinkDb
    /\ paths = NoPaths
    /\ run = NoRun

SpecPrompt == InitPrompt /\ [][NextPrompt]_vars

\* The naming rule: not empty after trimming, only alphanumerics, '-' and
\* '_', at most 50 characters.
NamingRule(name) ==
    /\ trim(name) # <<>>
    /\ \A i \in 1..Len(name) : is_alphanumeric(name[i]) \/ name[i] \in {"-", "_"}
    /\ Len(name) <= 50

\* C18: the name validator accepts an answer exactly when it is not empty
\* after trimming, holds only alphanumerics, '-' and '_', and is at most 50
\* characters long.
C18_NameAcceptedIffRule ==
    run.cmd = "name" => (run.verdict = "Ok" <=> NamingRule(run.input))

\* C19: the email validator accepts an answer exactly when, trimmed, it is
\* not empty, holds '@' and '.', is at most 254 characters long and neither
\* starts nor ends with '@'.
C19_EmailAcceptedIffRule ==
    run.cmd = "email" =>
        (run.verdict = "Ok" <=>
            /\ trim(run.input) # <<>>
            /\ str_contains(trim(run.input), "@")
            /\ str_contains(trim(run.input), ".")
            /\ Len(trim(run.input)) <= 254
            /\ trim(run.input)[1] # "@"
            /\ trim(run.input)[Len(trim(run.input))] # "@")

-----------------------------------------------------------------------------
(* The `init` command: one run of handle_init per step.  The directory    *)
(* tree is a function from the paths that exist, each a sequence of names *)
(* below the current directory, to what they are.                          *)

\* Largest number of runs of init in one behaviour.
MaxRuns == 2

DirEntry == [kind |-> "dir"]

FileEntry(content) == [kind |-> "file", content |-> content]

\* The names of the project files.
SrcName == <<"s", "r", "c">>

LibName == <<"l", "i", "b", ".", "r", "s">>

CargoName == <<"C", "a", "r", "g", "o", ".", "t", "o", "m", "l">>

ManifestName == <<"M", "a", "n", "i", "f", "e", "s", "t", ".", "t", "o", "m", "l">>

Prefixes(p) == { SubSeq(p, 1, k) : k \in 0..Len(p) }

\* fs::create_dir_all fails when a component of the path is a file.
can_create_dir_all(tree, p) ==
    \A q \in Prefixes(p) : q \in DOMAIN tree => tree[q].kind = "dir"

\* fs::create_dir_all: the directories of the path that are missing.
create_dir_all(tree, p) ==
    [q \in DOMAIN tree \cup Prefixes(p) |-> IF q \in DOMAIN tree THEN tree[q] ELSE DirEntry]

\* fs::write: the file is created, or its content replaced.
fs_write(tree, p, content) ==
    [q \in DOMAIN tree \cup {p} |-> IF q = p THEN FileEntry(content) ELSE tree[q]]

\* Cancelling a prompt: interact() returns an error.
Esc == <<"ESC">>

\* build_cargo_toml, generate_manifest and generate_lib_rs: what of their
\* arguments the texts hold.
build_cargo_toml(name, author) == [package_name |-> name, package_authors |-> <<author>>]

\* The character '"'
Quote == "\""

\* str::replace: every match of `from`, left to right, none overlapping.
RECURSIVE replace(_, _, _)
replace(s, from, to) ==
    IF Len(s) < Len(from) THEN s
    ELSE IF SubSeq(s, 1, Len(from)) = from
    THEN to \o replace(SubSeq(s, Len(from) + 1, Len(s)), from, to)
    ELSE <<s[1]>> \o replace(Tail(s), from, to)

\* [String]::join
RECURSIVE join(_, _)
join(strs, sep) ==
    IF strs = <<>> THEN <<>>
    ELSE IF Len(strs) = 1 THEN strs[1]
    ELSE strs[1] \o sep \o join(Tail(strs), sep)

\* format!("\"{s}\"")
format_quoted(s) == <<Quote>> \o s \o <<Quote>>

\* The placeholders __NAME__ and __AUTHORS__
NamePlaceholder == <<"_", "_", "N", "A", "M", "E", "_", "_">>

AuthorsPlaceholder == <<"_", "_", "A", "U", "T", "H", "O", "R", "S", "_", "_">>

\* The lines of a manifest text before it is parsed: a table header, or a
\* key with the characters that stand for its value.
HeaderLine(t) == [kind |-> "table", key |-> t, expr |-> <<>>]

AssignLine(k, e) == [kind |-> "assign", key |-> k, expr |-> e]

\* templates/manifest-agent.toml and templates/manifest-contract.toml: the
\* section of the type with the name, and the authors in the metadata.
manifest_template(pkg_type) ==
    << HeaderLine(IF pkg_type = "Agent" THEN "agent" ELSE "contract"),
       AssignLine("name", NamePlaceholder),
       HeaderLine("meta"),
       AssignLine("authors", AuthorsPlaceholder) >>

\* str::replace on the text of a file whose headers and keys hold no match.
replace_text(text, from, to) ==
    [i \in 1..Len(text) |-> [text[i] EXCEPT !.expr = replace(@, from, to)]]

\* The authors expression of generate_manifest: format!("[ {} ]", ...)
authors_expr(authors) ==
    <<"[", " ">> \o join([i \in 1..Len(authors) |-> format_quoted(authors[i])], <<",", " ">>)
        \o <<" ", "]">>

\* generate_manifest: the template of the type with __NAME__ replaced, then
\* __AUTHORS__.
generate_manifest(pkg_name, pkg_type, authors) ==
    replace_text(replace_text(manifest_template(pkg_type),
                              NamePlaceholder, format_quoted(pkg_name)),
                 AuthorsPlaceholder, authors_expr(authors))

generate_lib_rs(pkg_name, pkg_type) == [template |-> pkg_type, module_name |-> pkg_name]

InitEnd(result, tree, project, pkg_name) ==
    [ret |-> result, tree |-> tree, project |-> project, pkg_name |-> pkg_name]

\* query_author: the two prompts, then format!("{} <{}>", author, email)
query_author(typed_author, typed_email) ==
    IF typed_author = Esc \/ typed_email = Esc THEN Err("Interact")
    ELSE Ok(typed_author \o <<" ", "<">> \o typed_email \o <<">">>)

\* create_project_structure from the author on: the three files.
write_project_files(tree, project, pkg_name, pkg_type, author) ==
    IF author.status = "Err" THEN InitEnd(author, tree, project, pkg_name)
    ELSE InitEnd(Ok(<<>>),
                 fs_write(fs_write(fs_write(tree,
                     project \o <<CargoName>>, build_cargo_toml(pkg_name, author.val)),
                     project \o <<ManifestName>>,
                         generate_manifest(pkg_name, pkg_type, <<author.val>>)),
                     project \o <<SrcName, LibName>>, generate_lib_rs(pkg_name, pkg_type)),
                 project, pkg_name)

\* create_project_structure
create_project_structure(tree, project, pkg_name, pkg_type, author) ==
    IF \E p \in { <<SrcName>>, <<SrcName, LibName>>, <<CargoName>>, <<ManifestName>> } :
           project \o p \in DOMAIN tree
    THEN InitEnd(Err("RefuseOverwrite"), tree, project, pkg_name)
    ELSE write_project_files(create_dir_all(tree, project \o <<SrcName>>),
                             project, pkg_name, pkg_type, author)

\* handle_init from the project path on, without the check that the path
\* is free.
init_into_existing(tree, project, pkg_name, pkg_type, confirm, author) ==
    IF confirm = "esc" THEN InitEnd(Err("Interact"), tree, project, pkg_name)
    ELSE IF confirm = "no" THEN InitEnd(Err("Aborted"), tree, project, pkg_name)
    ELSE IF ~can_create_dir_all(tree, project)
    THEN InitEnd(Err("Io"), tree, project, pkg_name)
    ELSE create_project_structure(create_dir_all(tree, project),
                                  project, pkg_name, pkg_type, author)

\* handle_init from the project path on: the check of the path, the
\* confirmation ("off" when the config asks for none), create_dir_all and
\* create_project_structure.
init_project(tree, project, pkg_name, pkg_type, confirm, author) ==
    IF project \in DOMAIN tree THEN InitEnd(Err("AlreadyExists"), tree, project, pkg_name)
    ELSE IF confirm = "esc" THEN InitEnd(Err("Interact"), tree, project, pkg_name)
    ELSE IF confirm = "no" THEN InitEnd(Err("Aborted"), tree, project, pkg_name)
    ELSE IF ~can_create_dir_all(tree, project)
    THEN InitEnd(Err("Io"), tree, project, pkg_name)
    ELSE create_project_structure(create_dir_all(tree, project),
                                  project, pkg_name, pkg_type, author)

\* The project path of a run that ended before it had one.
NoProject == <<<<"?">>>>

\* handle_init that takes an existing directory for the project directory,
\* without a look at what it holds.
handle_init_in_place(tree, name_or_path, pkg_type, typed_name, confirm, author) ==
    IF pkg_type = "esc" THEN InitEnd(Err("Interact"), tree, NoProject, <<>>)
    ELSE IF name_or_path \in DOMAIN tree
    THEN IF tree[name_or_path].kind # "dir" THEN InitEnd(Err("NotADirectory"), tree, NoProject, <<>>)
         ELSE IF typed_name = Esc THEN InitEnd(Err("Interact"), tree, NoProject, <<>>)
         ELSE write_project_files(create_dir_all(tree, name_or_path \o <<SrcName>>),
                                  name_or_path, typed_name, pkg_type, author)
    ELSE init_project(tree, SubSeq(name_or_path, 1, Len(name_or_path) - 1) \o <<name_or_path[Len(name_or_path)]>>,
                      name_or_path[Len(name_or_path)], pkg_type, confirm, author)

\* handle_init.  name_or_path is the path of the argument, the empty path
\* for "." and for no argument; typed_name is what the name prompt returns.
handle_init(tree, name_or_path, pkg_type, typed_name, confirm, author) ==
    IF pkg_type = "esc" THEN InitEnd(Err("Interact"), tree, NoProject, <<>>)
    ELSE IF name_or_path \in DOMAIN tree
    THEN IF tree[name_or_path].kind # "dir" THEN InitEnd(Err("NotADirectory"), tree, NoProject, <<>>)
         ELSE IF typed_name = Esc THEN InitEnd(Err("Interact"), tree, NoProject, <<>>)
         ELSE init_project(tree, name_or_path \o <<typed_name>>, typed_name, pkg_type, confirm, author)
    ELSE init_project(tree, SubSeq(name_or_path, 1, Len(name_or_path) - 1) \o <<name_or_path[Len(name_or_path)]>>,
                      name_or_path[Len(name_or_path)], pkg_type, confirm, author)

\* The names the runs of init are given, as a path argument or at the
\* prompt: two names that pass validate_name and the rejected name of the
\* examples.
InitNames == { <<"a">>, <<"b">>, <<"b", "a", "d", " ", "n", "a", "m", "e", "!">> }

BadName == <<"b", "a", "d", " ", "n", "a", "m", "e", "!">>

\* The path arguments: none (or "."), a name, a name in a directory.
InitArgs ==
    { <<>>, <<<<"a">>>>, <<<<"b">>>>, <<BadName>>, <<<<"a">>, <<"b">>>>, <<<<"a">>, BadName>> }

\* What the name prompt returns: it does not take an answer that
\* validate_name rejects.
NameAnswers == { Esc } \cup { n \in InitNames : validate_pkg_name(n) = "Ok" }

\* The author: that of the config, or what query_author returns.
Authors ==
    { Ok(<<"c", " ", "<", "c", "@", "d", ".", "e", ">">>),
      query_author(<<"a">>, <<"a", "@", "b", ".", "c">>),
      query_author(<<"a">>, Esc) }

Made(r) == IF r.cmd = "init" THEN r.made ELSE {}

Runs(r) == IF r.cmd = "init" THEN r.count ELSE 0

InitDone(r, confirm) ==
    /\ paths' = [tree |-> r.tree]
    /\ ret' = r.ret
    /\ run' = [cmd |-> "init", count |-> Runs(run) + 1,
               resolved |-> r.project # NoProject,
               project |-> r.project, pkg_name |-> r.pkg_name,
               existed |-> r.project \in DOMAIN paths.tree,
               confirm |-> confirm,
               made |-> IF r.project \in DOMAIN r.tree /\ r.project \notin DOMAIN paths.tree
                        THEN Made(run) \cup {r.project} ELSE Made(run)]

InitCmd(name_or_path, pkg_type, typed_name, confirm, author) ==
    /\ Runs(run) < MaxRuns
    /\ InitDone(handle_init(paths.tree, name_or_path, pkg_type, typed_name, confirm, author), confirm)
    /\ op' = "init_cmd"
    /\ arg' = NoArg
    /\ UNCHANGED <<fs, db, was, disk, lost, mod, ui, node>>

NextInit ==
    \E name_or_path \in InitArgs, pkg_type \in {"Contract", "Agent", "esc"},
       typed_name \in NameAnswers, confirm \in {"off", "yes", "no", "esc"},
       author \in Authors :
        InitCmd(name_or_path, pkg_type, typed_name, confirm, author)

\* The current directory before the first run: empty, or holding a
\* directory or a file named a.
InitTrees ==
    { [p \in {<<>>} |-> DirEntry],
      [p \in {<<>>, <<<<"a">>>>} |-> DirEntry],
      [p \in {<<>>, <<<<"a">>>>} |-> IF p = <<>> THEN DirEntry ELSE FileEntry([other |-> "x"])],
      [p \in {<<>>, <<<<"a">>>>, <<<<"a">>, CargoName>>} |->
          IF Len(p) < 2 THEN DirEntry ELSE FileEntry([other |-> "x"])] }

InitInit ==
    /\ fs = NoFile
    /\ InitLinkDb
    /\ paths \in { [tree |-> t] : t \in InitTrees }
    /\ run = NoRun

SpecInit == InitInit /\ [][NextInit]_vars

\* C16: a run of init whose project path exists fails with the
\* already-exists error and creates and writes nothing; so does every run
\* into a path that an earlier run has created.
C16_ExistingProjectRefused ==
    [][(op' = "init_cmd" /\ run'.resolved /\ run'.project \in DOMAIN paths.tree) =>
          (ret'.err = "AlreadyExists" /\ paths' = paths)
      ]_vars

\* A run refused for a project directory that an earlier run created.
C16_Witness ==
    /\ run.cmd = "init" /\ run.count >= 2
    /\ ret.err = "AlreadyExists"
    /\ run.project \in run.made
    /\ run.project \o <<CargoName>> \in DOMAIN paths.tree

\* C17: a run of init creates a directory or a file only for a package
\* name that satisfies the naming rule, whether the name was typed at the
\* prompt or is the last segment of the path argument.
C17_CreatesOnlyForValidName ==
    [][(op' = "init_cmd" /\ paths' # paths) => NamingRule(run'.pkg_name)]_vars

-----------------------------------------------------------------------------
(* The `pack` command: one run of handle_pack per step.  The text of a    *)
(* TOML file is a sequence of lines: a table header, a key with its value, *)
(* or a line that is no TOML.                                              *)

TableLine(t) == [kind |-> "table", key |-> t, str |-> FALSE, val |-> <<>>]

\* key = "val"
KeyLine(k, v) == [kind |-> "key", key |-> k, str |-> TRUE, val |-> v]

\* key = 1
NumberLine(k) == [kind |-> "key", key |-> k, str |-> FALSE, val |-> <<>>]

JunkLine == [kind |-> "junk", key |-> "", str |-> FALSE, val |-> <<>>]

\* The header the line i stands under, 0 before the first header.
RECURSIVE TableAt(_, _)
TableAt(text, i) ==
    IF i = 0 THEN 0
    ELSE IF text[i].kind = "table" THEN i
    ELSE TableAt(text, i - 1)

TableName(text, i) == IF TableAt(text, i) = 0 THEN "" ELSE text[TableAt(text, i)].key

\* toml rejects a line that is no TOML, a table defined twice and a key
\* given twice in one table.
toml_ok(text) ==
    /\ \A i \in 1..Len(text) : text[i].kind # "junk"
    /\ \A i, j \in 1..Len(text) :
           (text[i].kind = "table" /\ text[j].kind = "table" /\ text[i].key = text[j].key)
               => i = j
    /\ \A i, j \in 1..Len(text) :
           ( /\ text[i].kind = "key" /\ text[j].kind = "key"
             /\ text[i].key = text[j].key
             /\ TableAt(text, i) = TableAt(text, j) ) => i = j

has_table(text, t) == \E i \in 1..Len(text) : text[i].kind = "table" /\ text[i].key = t

\* The lines of the key k in the table t.
key_lines(text, t, k) ==
    { i \in 1..Len(text) : text[i].kind = "key" /\ text[i].key = k /\ TableName(text, i) = t }

\* Deserialize for PkgInfo: name is required and a string, app_name and
\* app_module are optional strings, other keys are ignored.
pkg_info_ok(text, t) ==
    /\ key_lines(text, t, "name") # {}
    /\ \A k \in {"name", "app_name", "app_module"} :
           \A i \in key_lines(text, t, k) : text[i].str

opt_string(text, t, k) ==
    IF key_lines(text, t, k) = {} THEN None
    ELSE Some(text[CHOOSE i \in key_lines(text, t, k) : TRUE].val)

PkgInfo(text, t) ==
    [name |-> opt_string(text, t, "name").val,
     app_name |-> opt_string(text, t, "app_name"),
     app_module |-> opt_string(text, t, "app_module")]

\* An Option<PkgInfo>
NoInfo == [set |-> FALSE]

SomeInfo(info) == [set |-> TRUE, info |-> info]

section(text, t) == IF has_table(text, t) THEN SomeInfo(PkgInfo(text, t)) ELSE NoInfo

\* read_manifest: toml::from_str::<Manifest>.  Of capabilities and meta the
\* model keeps whether the table is there.
read_manifest(text) ==
    IF ~toml_ok(text) THEN Err("Toml")
    ELSE IF \E t \in {"agent", "contract"} : has_table(text, t) /\ ~pkg_info_ok(text, t)
    THEN Err("Toml")
    ELSE Ok([agent |-> section(text, "agent"),
             contract |-> section(text, "contract"),
             capabilities |-> has_table(text, "capabilities"),
             meta |-> has_table(text, "meta")])

\* The texts Manifest.toml may hold.
ManifestTexts ==
    { <<TableLine("agent"), KeyLine("name", <<"a">>)>>,
      <<TableLine("contract"), KeyLine("name", <<"a">>)>>,
      <<KeyLine("name", <<"b">>), TableLine("agent"), KeyLine("name", <<"a">>),
        KeyLine("app_name", <<"b">>), NumberLine("other")>>,
      <<TableLine("contract"), KeyLine("name", <<"b">>), TableLine("capabilities"),
        TableLine("meta"), KeyLine("name", <<"a">>)>>,
      <<TableLine("agent"), KeyLine("name", <<"a">>), TableLine("contract"),
        KeyLine("name", <<"b">>)>>,
      <<TableLine("contract"), KeyLine("name", <<"a">>), TableLine("meta"),
        TableLine("agent"), KeyLine("name", <<"a">>)>>,
      <<>>,
      <<TableLine("meta"), KeyLine("name", <<"a">>)>>,
      <<TableLine("agent")>>,
      <<TableLine("agent"), NumberLine("name")>>,
      <<TableLine("agent"), KeyLine("name", <<"a">>), TableLine("agent")>>,
      <<TableLine("contract"), KeyLine("name", <<"a">>), KeyLine("name", <<"b">>)>>,
      <<TableLine("contract"), KeyLine("name", <<"a">>), JunkLine>> }

\* The paths check_project_structure asks for, in its order.
MustExist == <<"Cargo.toml", "src", "src/lib.rs", "Manifest.toml">>

\* check_project_structure that looks for Manifest.toml first and for
\* Cargo.toml last.
RECURSIVE last_missing(_, _)
last_missing(present, i) ==
    IF i > Len(MustExist) THEN 0
    ELSE IF MustExist[Len(MustExist) + 1 - i] \notin present THEN Len(MustExist) + 1 - i
    ELSE last_missing(present, i + 1)

\* check_project_structure: the first path that is missing, 0 when none is.
RECURSIVE first_missing(_, _)
first_missing(present, i) ==
    IF i > Len(MustExist) THEN 0
    ELSE IF MustExist[i] \notin present THEN i
    ELSE first_missing(present, i + 1)

\* Is x among the elements of the sequence s?
Among(s, x) == \E i \in 1..Len(s) : s[i] = x

PackEnd(result, steps, pkg_type, pkg) ==
    [ret |-> result, steps |-> steps, pkg_type |-> pkg_type, pkg |-> pkg]

NoPkg == [written |-> FALSE]

\* The decimal digits, and u64::from_str on a run of them.
DigitChars == <<"0", "1", "2", "3", "4", "5", "6", "7", "8", "9">>

is_digit(c) == \E i \in 1..Len(DigitChars) : DigitChars[i] = c

digit_value(c) == (CHOOSE i \in 1..Len(DigitChars) : DigitChars[i] = c) - 1

RECURSIVE number(_)
number(s) ==
    IF Len(s) = 1 THEN digit_value(s[1])
    ELSE 10 * number(SubSeq(s, 1, Len(s) - 1)) + digit_value(s[Len(s)])

\* str::split: the parts of s between the separators.
RECURSIVE split(_, _, _, _)
split(s, sep, i, part) ==
    IF i > Len(s) THEN <<part>>
    ELSE IF s[i] = sep THEN <<part>> \o split(s, sep, i + 1, <<>>)
    ELSE split(s, sep, i + 1, Append(part, s[i]))

is_number(s) == s # <<>> /\ \A i \in 1..Len(s) : is_digit(s[i])

\* SemVer::from_str: major.minor.patch
semver_of(parts) ==
    IF Len(parts) # 3 \/ \E i \in 1..Len(parts) : ~is_number(parts[i]) THEN Err("SemVer")
    ELSE Ok([major |-> number(parts[1]), minor |-> number(parts[2]),
             patch |-> number(parts[3])])

parse_semver(s) == semver_of(split(s, ".", 1, <<>>))

\* get_version_from_cargo: Cargo.toml parses and has a [package] section
\* or not, and the version of that section.
get_version_from_cargo(cargo, version) ==
    IF cargo # "ok" THEN Err("Version") ELSE parse_semver(version)

\* Hash256::digest: a checksum of 16 bits stands for the hash.
RECURSIVE Hash256_digest_from(_, _)
Hash256_digest_from(bytes, h) ==
    IF bytes = <<>> THEN h
    ELSE Hash256_digest_from(Tail(bytes), (h * 31 + bytes[1] + 1) % 65536)

Hash256_digest(bytes) == Hash256_digest_from(bytes, 7)

\* The WasmPkg with the digest of an empty buffer.
PkgFileEmptyDigest(info, pkg_type, manifest, git_info, target, version, wasm_bytes) ==
    [written |-> TRUE, name |-> info.name, app_name |-> info.app_name,
     app_module |-> info.app_module, capabilities |-> manifest.capabilities,
     pkg_type |-> pkg_type, git_info |-> git_info, target |-> target,
     version |-> version, digest |-> Hash256_digest(<<>>), wasm |-> wasm_bytes]

\* The WasmPkg of handle_pack, written to package.json.
PkgFile(info, pkg_type, manifest, git_info, target, version, wasm_bytes) ==
    [written |-> TRUE, name |-> info.name, app_name |-> info.app_name,
     app_module |-> info.app_module, capabilities |-> manifest.capabilities,
     pkg_type |-> pkg_type, git_info |-> git_info, target |-> target,
     version |-> version, digest |-> Hash256_digest(wasm_bytes), wasm |-> wasm_bytes]

\* handle_pack from get_version_from_cargo on, with get_git_info under `?`.
pack_build_git_fatal(pkg_type, info, manifest, w, steps) ==
    IF get_version_from_cargo(w.cargo, w.version).status = "Err"
    THEN PackEnd(Err("Version"), steps \o <<"version">>, pkg_type, NoPkg)
    ELSE IF w.build = "spawn_fails"
    THEN PackEnd(Err("Spawn"), steps \o <<"version">>, pkg_type, NoPkg)
    ELSE IF w.build = "exit_fail"
    THEN PackEnd(Err("BuildFailed"), steps \o <<"version", "build">>, pkg_type, NoPkg)
    ELSE IF w.metadata = "run_fails"
    THEN PackEnd(Err("Metadata"), steps \o <<"version", "build">>, pkg_type, NoPkg)
    ELSE IF w.metadata = "not_json"
    THEN PackEnd(Err("MetadataJson"), steps \o <<"version", "build", "metadata">>,
                 pkg_type, NoPkg)
    ELSE IF w.wasm = "missing"
    THEN PackEnd(Err("NoWasm"), steps \o <<"version", "build", "metadata">>, pkg_type, NoPkg)
    ELSE IF w.git = "err"
    THEN PackEnd(Err("GitInfo"), steps \o <<"version", "build", "metadata", "wasm", "git">>,
                 pkg_type, NoPkg)
    ELSE IF w.git = "esc"
    THEN PackEnd(Err("Interact"), steps \o <<"version", "build", "metadata", "wasm", "git">>,
                 pkg_type, NoPkg)
    ELSE PackEnd(Ok(<<>>),
                 steps \o <<"version", "build", "metadata", "wasm", "git", "write">>,
                 pkg_type,
                 PkgFile(info, pkg_type, manifest, w.git = "yes",
                         IF w.metadata = "ok" THEN "target_directory" ELSE "target",
                         get_version_from_cargo(w.cargo, w.version).val, w.wasm_bytes))

\* handle_pack from get_version_from_cargo on; w says how each of the later
\* steps goes.
pack_build(pkg_type, info, manifest, w, steps) ==
    IF get_version_from_cargo(w.cargo, w.version).status = "Err"
    THEN PackEnd(Err("Version"), steps \o <<"version">>, pkg_type, NoPkg)
    ELSE IF w.build = "spawn_fails"
    THEN PackEnd(Err("Spawn"), steps \o <<"version">>, pkg_type, NoPkg)
    ELSE IF w.build = "exit_fail"
    THEN PackEnd(Err("BuildFailed"), steps \o <<"version", "build">>, pkg_type, NoPkg)
    ELSE IF w.metadata = "run_fails"
    THEN PackEnd(Err("Metadata"), steps \o <<"version", "build">>, pkg_type, NoPkg)
    ELSE IF w.metadata = "not_json"
    THEN PackEnd(Err("MetadataJson"), steps \o <<"version", "build", "metadata">>,
                 pkg_type, NoPkg)
    ELSE IF w.wasm = "missing"
    THEN PackEnd(Err("NoWasm"), steps \o <<"version", "build", "metadata">>, pkg_type, NoPkg)
    ELSE IF w.git = "esc"
    THEN PackEnd(Err("Interact"), steps \o <<"version", "build", "metadata", "wasm", "git">>,
                 pkg_type, NoPkg)
    ELSE PackEnd(Ok(<<>>),
                 steps \o <<"version", "build", "metadata", "wasm", "git", "write">>,
                 pkg_type,
                 PkgFile(info, pkg_type, manifest, w.git = "yes",
                         IF w.metadata = "ok" THEN "target_directory" ELSE "target",
                         get_version_from_cargo(w.cargo, w.version).val, w.wasm_bytes))

\* The match on the sections that takes the agent section whenever it is
\* set.
match_agent_first(m, w, steps) ==
    IF m.status = "Err" THEN PackEnd(Err("ReadManifest"), steps, "", NoPkg)
    ELSE IF m.val.agent.set
    THEN pack_build("Agent", m.val.agent.info, m.val, w, steps \o <<"manifest", "intro">>)
    ELSE IF m.val.contract.set
    THEN pack_build("Contract", m.val.contract.info, m.val, w,
                    steps \o <<"manifest", "intro">>)
    ELSE PackEnd(Err("InvalidManifest"), steps \o <<"manifest">>, "", NoPkg)

\* handle_pack from the parsed manifest m on: the match on the sections.
match_sections(m, w, steps) ==
    IF m.status = "Err" THEN PackEnd(Err("ReadManifest"), steps, "", NoPkg)
    ELSE IF m.val.agent.set /\ ~m.val.contract.set
    THEN pack_build("Agent", m.val.agent.info, m.val, w, steps \o <<"manifest", "intro">>)
    ELSE IF ~m.val.agent.set /\ m.val.contract.set
    THEN pack_build("Contract", m.val.contract.info, m.val, w,
                    steps \o <<"manifest", "intro">>)
    ELSE PackEnd(Err("InvalidManifest"), steps \o <<"manifest">>, "", NoPkg)

\* handle_pack.  w: what the path is, which project paths exist, the text
\* of Manifest.toml and how the later steps go.
handle_pack(w) ==
    IF w.dir = "absent" THEN PackEnd(Err("Canonicalize"), <<>>, "", NoPkg)
    ELSE IF w.dir # "dir" THEN PackEnd(Err("NotADirectory"), <<"canonicalize">>, "", NoPkg)
    ELSE IF first_missing(w.present, 1) # 0
    THEN PackEnd(Err(MustExist[first_missing(w.present, 1)]), <<"canonicalize">>, "", NoPkg)
    ELSE match_sections(read_manifest(w.manifest), w, <<"canonicalize", "structure">>)

\* How the steps after the match may go: the version of Cargo.toml parses
\* or not, the build cannot start, fails or succeeds, `cargo metadata`
\* cannot run, prints no JSON, prints JSON without target_directory or
\* with it, the binary is there or not, get_git_info fails or the user
\* answers its prompt.  A step that is not reached goes the first way.
\* The versions Cargo.toml may give, and the bytes the binary may hold.
FirstVersion == <<"0", ".", "1", ".", "0">>

VersionTexts == { FirstVersion, <<"1", ".", "2", ".", "1", "0">>, <<"1", ".", "x">> }

FirstBytes == <<0, 97, 115, 109>>

WasmFiles == { FirstBytes, <<>> }

Laters ==
    { l \in [cargo : {"ok", "bad"}, version : VersionTexts,
             build : {"ok", "spawn_fails", "exit_fail"},
             metadata : {"ok", "run_fails", "not_json", "no_target_directory"},
             wasm : {"ok", "missing"}, wasm_bytes : WasmFiles,
             git : {"yes", "no", "err", "esc"}] :
        /\ l.cargo # "ok" => l.version = FirstVersion
        /\ get_version_from_cargo(l.cargo, l.version).status = "Err" => l.build = "ok"
        /\ l.build # "ok" => l.metadata = "ok"
        /\ l.metadata \in {"run_fails", "not_json"} => l.wasm = "ok"
        /\ (get_version_from_cargo(l.cargo, l.version).status = "Err" \/ l.build # "ok"
                \/ l.metadata \in {"run_fails", "not_json"} \/ l.wasm # "ok")
             => (l.git = "yes" /\ l.wasm_bytes = FirstBytes) }

PackWorld(dir, present, manifest, l) ==
    [dir |-> dir, present |-> present, manifest |-> manifest, cargo |-> l.cargo,
     version |-> l.version, build |-> l.build, metadata |-> l.metadata, wasm |-> l.wasm,
     wasm_bytes |-> l.wasm_bytes, git |-> l.git]

AllPresent == { MustExist[i] : i \in 1..Len(MustExist) }

FirstLater ==
    [cargo |-> "ok", version |-> FirstVersion, build |-> "ok", metadata |-> "ok",
     wasm |-> "ok", wasm_bytes |-> FirstBytes, git |-> "yes"]

FirstManifest == <<TableLine("agent"), KeyLine("name", <<"a">>)>>

\* The runs of pack: a path that is missing or a file, a project directory
\* that lacks some of its paths, a project directory with all of them.  The
\* versions and the binaries vary under the first manifest, the manifests
\* under the first version and binary.
PackWorlds ==
    { PackWorld(d, AllPresent, FirstManifest, FirstLater) : d \in {"absent", "file"} }
        \cup { PackWorld("dir", p, FirstManifest, FirstLater) :
                 p \in (SUBSET AllPresent) \ {AllPresent} }
        \cup { PackWorld("dir", AllPresent, FirstManifest, l) : l \in Laters }
        \cup { PackWorld("dir", AllPresent, m, l) :
                 m \in ManifestTexts,
                 l \in { x \in Laters : x.version = FirstVersion /\ x.wasm_bytes = FirstBytes } }

PackDone(r, w) ==
    /\ paths' = [package_json |-> IF r.pkg.written THEN r.pkg ELSE paths.package_json]
    /\ ret' = r.ret
    /\ run' = [cmd |-> "pack", manifest |-> w.manifest, steps |-> r.steps,
               pkg_type |-> r.pkg_type, present |-> w.present,
               version |-> IF Among(r.steps, "version") /\ w.cargo = "ok"
                           THEN w.version ELSE <<>>,
               wasm_bytes |-> IF Among(r.steps, "wasm") THEN w.wasm_bytes ELSE <<>>,
               metadata |-> IF Among(r.steps, "build") THEN w.metadata ELSE "",
               git |-> IF Among(r.steps, "git") THEN w.git ELSE ""]

Pack(w) ==
    /\ PackDone(handle_pack(w), w)
    /\ op' = "pack"
    /\ arg' = NoArg
    /\ UNCHANGED <<fs, db, was, disk, lost, mod, ui, node>>

NextPack == \E w \in PackWorlds : Pack(w)

InitPack ==
    /\ fs = NoFile
    /\ InitLinkDb
    /\ paths = [package_json |-> NoPkg]
    /\ run = NoRun

SpecPack == InitPack /\ [][NextPack]_vars

\* C20: a run of pack goes past the match on the sections only for a
\* manifest that has exactly one of the agent and contract sections, with
\* the package type of that section; for a manifest with both or neither it
\* fails and does not start the build.
C20_ExactlyOneSection ==
    run.cmd = "pack" =>
        /\ Among(run.steps, "intro") =>
               \/ ( /\ has_table(run.manifest, "agent")
                    /\ ~has_table(run.manifest, "contract")
                    /\ run.pkg_type = "Agent" )
               \/ ( /\ ~has_table(run.manifest, "agent")
                    /\ has_table(run.manifest, "contract")
                    /\ run.pkg_type = "Contract" )
        /\ ( /\ Among(run.steps, "structure")
             /\ has_table(run.manifest, "agent") = has_table(run.manifest, "contract") )
               => (ret.status = "Err" /\ ~Among(run.steps, "build"))

\* A run that read a manifest with both sections, each with its name, and
\* failed on the match.
C20_Witness ==
    /\ run.cmd = "pack" /\ ret.err = "InvalidManifest"
    /\ has_table(run.manifest, "agent") /\ has_table(run.manifest, "contract")
    /\ run.steps = <<"canonicalize", "structure", "manifest">>

-----------------------------------------------------------------------------
(* The manifest that generate_manifest returns, read back with            *)
(* toml::from_str as the tests of template.rs and read_manifest do.       *)

\* The closing quote of a basic string whose content starts at i, 0 when
\* the string does not end or holds a bad escape.
RECURSIVE closing_quote(_, _)
closing_quote(e, i) ==
    IF i > Len(e) THEN 0
    ELSE IF e[i] = Quote THEN i
    ELSE IF e[i] = "\\"
    THEN IF i + 1 <= Len(e) /\ e[i + 1] \in {Quote, "\\"} THEN closing_quote(e, i + 2) ELSE 0
    ELSE closing_quote(e, i + 1)

\* The end of the basic string that starts at i, 0 when none does.
toml_string_end(e, i) == IF i <= Len(e) /\ e[i] = Quote THEN closing_quote(e, i + 1) ELSE 0

only_ws_after(e, j) == \A k \in (j + 1)..Len(e) : e[k] = " "

is_toml_string(e) == toml_string_end(e, 1) # 0 /\ only_ws_after(e, toml_string_end(e, 1))

toml_string_value(e) == SubSeq(e, 2, toml_string_end(e, 1) - 1)

\* The rest of an array of strings from position i on: the next string and
\* a comma, or the closing bracket.
RECURSIVE array_rest(_, _)
array_rest(e, i) ==
    IF SkipWs(e, i) > Len(e) THEN FALSE
    ELSE IF e[SkipWs(e, i)] = "]" THEN only_ws_after(e, SkipWs(e, i))
    ELSE IF toml_string_end(e, SkipWs(e, i)) = 0 THEN FALSE
    ELSE IF SkipWs(e, toml_string_end(e, SkipWs(e, i)) + 1) > Len(e) THEN FALSE
    ELSE IF e[SkipWs(e, toml_string_end(e, SkipWs(e, i)) + 1)] = ","
    THEN array_rest(e, SkipWs(e, toml_string_end(e, SkipWs(e, i)) + 1) + 1)
    ELSE /\ e[SkipWs(e, toml_string_end(e, SkipWs(e, i)) + 1)] = "]"
         /\ only_ws_after(e, SkipWs(e, toml_string_end(e, SkipWs(e, i)) + 1))

is_toml_array(e) == e # <<>> /\ e[1] = "[" /\ array_rest(e, 2)

\* One line as toml reads it: a header, a key with a string, a key with
\* another value, or no TOML.
toml_line(l) ==
    IF l.kind = "table" THEN TableLine(l.key)
    ELSE IF is_toml_string(l.expr) THEN KeyLine(l.key, toml_string_value(l.expr))
    ELSE IF is_toml_array(l.expr) THEN NumberLine(l.key)
    ELSE JunkLine

\* toml::from_str::<Manifest> on a text of characters.
manifest_from_str(text) == read_manifest([i \in 1..Len(text) |-> toml_line(text[i])])

\* The package names of the runs: names that validate_name accepts.
ManifestNames ==
    { n \in { <<"a">>, <<"m", "y", "-", "a", "_", "1">>, <<"u00E9">>, NamePlaceholder,
              AuthorsPlaceholder, Rep("a", MaxNameLen) } : validate_pkg_name(n) = "Ok" }

\* The authors of the runs: that of query_author for answers its
\* validators accept.
AuthorStrings ==
    { query_author(a, e).val :
        a \in { x \in { <<"a">>, <<"a", " ", "b">> } : validate_author(x) = "Ok" },
        e \in { x \in { <<"a", "@", "b", ".", "c">>, <<"a", Quote, "@", "b", ".", "c">> } :
                  validate_email(x) = "Ok" } }

AuthorLists ==
    { <<>> } \cup { <<a>> : a \in AuthorStrings }
        \cup { <<a, b>> : a \in AuthorStrings, b \in AuthorStrings }

\* The tests of template.rs for any name and authors: generate_manifest,
\* then toml::from_str.
ManifestTest(pkg_name, pkg_type, authors) ==
    /\ paths' = [manifest |-> generate_manifest(pkg_name, pkg_type, authors)]
    /\ ret' = manifest_from_str(generate_manifest(pkg_name, pkg_type, authors))
    /\ run' = [cmd |-> "generate", pkg_name |-> pkg_name, pkg_type |-> pkg_type,
               authors |-> authors]
    /\ op' = "generate_manifest"
    /\ arg' = NoArg
    /\ UNCHANGED <<fs, db, was, disk, lost, mod, ui, node>>

NextManifest ==
    \E pkg_name \in ManifestNames, pkg_type \in {"Agent", "Contract"},
       authors \in AuthorLists : ManifestTest(pkg_name, pkg_type, authors)

InitManifest ==
    /\ fs = NoFile
    /\ InitLinkDb
    /\ paths = [manifest |-> <<>>]
    /\ run = NoRun

SpecManifest == InitManifest /\ [][NextManifest]_vars

\* C21: for a valid package name, the text of generate_manifest parses as
\* a Manifest that has the section of the package type, with the name, and
\* not the section of the other type.
C21_GeneratedManifestParses ==
    run.cmd = "generate" =>
        /\ ret.status = "Ok"
        /\ ret.val.agent.set = (run.pkg_type = "Agent")
        /\ ret.val.contract.set = (run.pkg_type = "Contract")
        /\ run.pkg_type = "Agent" => ret.val.agent.info.name = run.pkg_name
        /\ run.pkg_type = "Contract" => ret.val.contract.info.name = run.pkg_name

\* C22: the package.json of a run of pack that succeeded holds the bytes
\* read from the binary, the hash of exactly those bytes as its digest, and
\* the version parsed from Cargo.toml.
C22_DigestAndVersion ==
    (run.cmd = "pack" /\ ret.status = "Ok") =>
        /\ paths.package_json.written
        /\ paths.package_json.wasm = run.wasm_bytes
        /\ paths.package_json.digest = Hash256_digest(run.wasm_bytes)
        /\ parse_semver(run.version).status = "Ok"
        /\ paths.package_json.version = parse_semver(run.version).val

\* A run that packed a binary of four bytes under a version with a number
\* of two digits.
C22_Witness ==
    /\ run.cmd = "pack" /\ ret.status = "Ok"
    /\ Len(run.wasm_bytes) = 4
    /\ paths.package_json.digest # Hash256_digest(<<>>)
    /\ paths.package_json.version.patch = 10

-----------------------------------------------------------------------------
(* The dispatcher: one run of main per step.                              *)

\* The subcommands of Commands.
Commands == {"Init", "Pack", "Deploy", "Link", "Publish"}

\* config::get_config: no config file gives the default config, a file
\* that cannot be read or is no TOML an error.
get_config(config) ==
    IF config = "no_file" THEN Ok(<<>>)
    ELSE IF config = "unreadable" THEN Err("Io")
    ELSE IF config = "no_toml" THEN Err("Toml")
    ELSE Ok(<<>>)

\* How a process ends: main returns Ok, main returns an error that the
\* runtime prints once, or a panic unwinds main.
Exit(kind, reports) == [kind |-> kind, reports |-> reports]

\* The match of main on the command; pipeline is what handle_new or
\* handle_pack returns.
dispatch(command, pipeline) ==
    IF command \in {"Deploy", "Link", "Publish"} THEN Exit("panic", 0)
    ELSE IF pipeline = "fails" THEN Exit("error", 1)
    ELSE Exit("ok", 0)

\* main
main(command, config, pipeline) ==
    IF get_config(config).status = "Err" THEN Exit("error", 1)
    ELSE dispatch(command, pipeline)

\* What the pipeline of a command does when it is called: handle_new and
\* handle_pack return, the other commands have none.
PipelineOf(command) ==
    IF command \in {"Init", "Pack"} THEN {"ok", "fails"} ELSE {"unavailable"}

MainDone(e, command, config, pipeline) ==
    /\ paths' = [exits |-> Append(paths.exits, e.kind)]
    /\ ret' = IF e.kind = "ok" THEN Ok(<<>>) ELSE Err(e.kind)
    /\ run' = [cmd |-> "main", command |-> command, config |-> config,
               pipeline |-> pipeline,
               dispatched |-> get_config(config).status = "Ok",
               exit |-> e.kind, reports |-> e.reports]

Main(command, config, pipeline) ==
    /\ Len(paths.exits) < MaxRuns
    /\ MainDone(main(command, config, pipeline), command, config, pipeline)
    /\ op' = "main"
    /\ arg' = NoArg
    /\ UNCHANGED <<fs, db, was, disk, lost, mod, ui, node>>

NextMain ==
    \E command \in Commands, config \in {"no_file", "valid", "unreadable", "no_toml"} :
        \E pipeline \in PipelineOf(command) : Main(command, config, pipeline)

InitMain ==
    /\ fs = NoFile
    /\ InitLinkDb
    /\ paths = [exits |-> <<>>]
    /\ run = NoRun

SpecMain == InitMain /\ [][NextMain]_vars

\* C23: no command makes the process panic, and a command whose pipeline
\* fails or is not available ends in an error that is reported once.
C23_ErrorsReportedNoPanic ==
    run.cmd = "main" =>
        /\ run.exit # "panic"
        /\ (run.dispatched /\ run.pipeline \in {"fails", "unavailable"})
               => (run.exit = "error" /\ run.reports = 1)

\* The steps of a run in the order of handle_pack.
PackOrder ==
    <<"canonicalize", "structure", "manifest", "intro", "version", "build", "metadata",
      "wasm", "git", "write">>

\* C24: a run of pack takes the steps of the pipeline in their order, each
\* at most once, and ends at the first that fails: the check of the
\* structure fails on the first missing path of Cargo.toml, src, src/lib.rs
\* and Manifest.toml; the build starts only after that check, the manifest
\* and the version; package.json is written only after the build, the
\* metadata and the binary, in a run that succeeds; and a run that fails
\* leaves package.json as it was.
C24_LinearPipeline ==
    [][op' = "pack" =>
          /\ \E n \in 0..Len(PackOrder) : run'.steps = SubSeq(PackOrder, 1, n)
          /\ \A i \in 1..Len(MustExist) :
                 ret'.err = MustExist[i]
                     <=> ( /\ Among(run'.steps, "canonicalize")
                           /\ ~Among(run'.steps, "structure")
                           /\ MustExist[i] \notin run'.present
                           /\ \A j \in 1..(i - 1) : MustExist[j] \in run'.present )
          /\ Among(run'.steps, "build") =>
                 /\ AllPresent \subseteq run'.present
                 /\ read_manifest(run'.manifest).status = "Ok"
                 /\ parse_semver(run'.version).status = "Ok"
          /\ Among(run'.steps, "write") <=> ret'.status = "Ok"
          /\ ret'.status = "Ok" => run'.metadata # "run_fails"
          /\ ret'.status = "Err" => paths'.package_json = paths.package_json
      ]_vars

\* A run whose build failed in a project directory that holds the
\* package.json of an earlier run.
C24_Witness ==
    /\ run.cmd = "pack" /\ ret.err = "BuildFailed"
    /\ run.steps = SubSeq(PackOrder, 1, 6)
    /\ paths.package_json.written

-----------------------------------------------------------------------------
(* compile_project and the `cargo build` it spawns: the child writes      *)
(* lines to its stdout and stderr pipes, the parent reads stderr to its    *)
(* end and then waits for the exit.  One step of either process per step.  *)

\* The lines a pipe holds before a write to it blocks.
PipeCapacity == 2

\* The largest number of lines a build writes.
MaxOutput == 4

\* What a build writes, in its order: lines to stdout and to stderr.
RECURSIVE Outputs(_)
Outputs(n) ==
    IF n = 0 THEN { <<>> }
    ELSE Outputs(n - 1) \cup { Append(o, s) : o \in Outputs(n - 1), s \in {"stdout", "stderr"} }

\* The write the child is at finds its pipe full.
ChildBlockedOn(stream) ==
    /\ ~run.exited /\ run.todo # <<>>
    /\ Head(run.todo) = stream
    /\ Len(paths[stream]) >= PipeCapacity

\* The child writes its next line, when the pipe has room for it.
ChildWrite ==
    /\ run.cmd = "compile" /\ ~run.exited /\ run.todo # <<>>
    /\ Len(paths[Head(run.todo)]) < PipeCapacity
    /\ paths' = [paths EXCEPT ![Head(run.todo)] = Append(@, "line")]
    /\ run' = [run EXCEPT !.todo = Tail(@)]
    /\ op' = "child_write"
    /\ UNCHANGED <<fs, db, arg, ret, was, disk, lost, mod, ui, node>>

\* The child exits after its last line: its ends of both pipes close.
ChildExit ==
    /\ run.cmd = "compile" /\ ~run.exited /\ run.todo = <<>>
    /\ run' = [run EXCEPT !.exited = TRUE]
    /\ op' = "child_exit"
    /\ UNCHANGED <<fs, db, arg, ret, was, disk, lost, mod, ui, node, paths>>

\* stderr_reader.next() returns a line: sp.set_message(&line).
ParentReadLine ==
    /\ run.cmd = "compile" /\ run.pc = "read_stderr"
    /\ paths.stderr # <<>>
    /\ paths' = [paths EXCEPT !.stderr = Tail(@)]
    /\ run' = [run EXCEPT !.shown = @ + 1]
    /\ op' = "read_line"
    /\ UNCHANGED <<fs, db, arg, ret, was, disk, lost, mod, ui, node>>

\* stderr_reader.next() returns None: the pipe is empty and closed.
ParentEndOfStream ==
    /\ run.cmd = "compile" /\ run.pc = "read_stderr"
    /\ paths.stderr = <<>> /\ run.exited
    /\ run' = [run EXCEPT !.pc = "wait"]
    /\ op' = "end_of_stream"
    /\ UNCHANGED <<fs, db, arg, ret, was, disk, lost, mod, ui, node, paths>>

\* child.wait() returns the exit status, and compile_project the target
\* path or the build error.
ParentWait ==
    /\ run.cmd = "compile" /\ run.pc = "wait" /\ run.exited
    /\ run' = [run EXCEPT !.pc = "returned"]
    /\ ret' = IF run.status = "success" THEN Ok(<<"target">>) ELSE Err("BuildFailed")
    /\ op' = "wait"
    /\ UNCHANGED <<fs, db, arg, was, disk, lost, mod, ui, node, paths>>

NextCompile ==
    \/ ChildWrite
    \/ ChildExit
    \/ ParentReadLine
    \/ ParentEndOfStream
    \/ ParentWait

\* After spawn(): both pipes empty, the parent about to read stderr, the
\* child about to write.
InitCompile ==
    /\ fs = NoFile
    /\ InitLinkDb
    /\ paths = [stdout |-> <<>>, stderr |-> <<>>]
    /\ run \in { [cmd |-> "compile", pc |-> "read_stderr", todo |-> o, exited |-> FALSE,
                  status |-> s, shown |-> 0] :
                  o \in Outputs(MaxOutput), s \in {"success", "failure"} }

SpecCompile == InitCompile /\ [][NextCompile]_vars

\* C25: the parent never waits for stderr to close while the child is
\* blocked on a write to a pipe that nobody reads.
C25_NoPipeDeadlock ==
    ~( /\ run.cmd = "compile" /\ run.pc = "read_stderr"
       /\ paths.stderr = <<>>
       /\ ChildBlockedOn("stdout") )

\* C26: after a build that succeeded, a run of pack whose metadata query
\* printed no JSON, or JSON without a string target_directory, does not
\* fail on it: it goes on to read the binary, from the `target` directory
\* of the project.
C26_MetadataFallsBack ==
    (run.cmd = "pack" /\ run.metadata \in {"not_json", "no_target_directory"}) =>
        /\ ret.err # "MetadataJson"
        /\ Among(run.steps, "metadata")
        /\ ret.status = "Ok" => paths.package_json.target = "target"

\* C27: a run of pack in which get_git_info fails does not fail for it: it
\* writes package.json without provenance; and a package.json holds
\* provenance only when the run has derived it.
C27_GitInfoBestEffort ==
    run.cmd = "pack" =>
        /\ run.git = "err" =>
               /\ ret.status = "Ok"
               /\ Among(run.steps, "write")
               /\ paths.package_json.written /\ ~paths.package_json.git_info
        /\ (Among(run.steps, "write") /\ paths.package_json.git_info) => run.git = "yes"

\* A run that wrote package.json although get_git_info failed.
C27_Witness ==
    /\ run.cmd = "pack" /\ run.git = "err"
    /\ ret.status = "Ok"
    /\ paths.package_json.written /\ ~paths.package_json.git_info
    /\ paths.package_json.pkg_type = "Contract"

\* C28: a run of merge that fails for a missing input names the missing
\* path in its error: the introduction path when the introduction file is
\* missing, the package path when the package file is missing.
C28_MissingPathNamed ==
    run.cmd = "merge" =>
        /\ ret.err = "NoIntroduction" => run.named = "introduction_path"
        /\ ret.err = "NoPackage" => run.named = "package_path"

\* The three files a run of init writes into the project directory.
ProjectFiles(project) ==
    { project \o <<CargoName>>, project \o <<ManifestName>>, project \o <<SrcName, LibName>> }

-----------------------------------------------------------------------------
(* remove_link and modify_link on registries with several records of one  *)
(* name.                                                                   *)

\* The sequence `after` is `before` without its first record named name:
\* the records in front of it and behind it keep their places and order.
FirstMatchRemoved(before, after, name) ==
    \E i \in 1..Len(before) :
        /\ before[i].name = name
        /\ \A j \in 1..(i - 1) : before[j].name # name
        /\ Len(after) = Len(before) - 1
        /\ \A k \in 1..(i - 1) : after[k] = before[k]
        /\ \A k \in i..Len(after) : after[k] = before[k + 1]

\* What remove_link(name) makes of the sequence `before`.
Removed(before, after, name) ==
    IF \E i \in 1..Len(before) : before[i].name = name
    THEN FirstMatchRemoved(before, after, name)
    ELSE after = before

====
